---- MODULE Spec2Model ----
(***************************************************************************)
(* VerShip release pipeline: the publish command (gate, confirmation),     *)
(* PublishManager.publish with its pre-flight validation, ordered stages   *)
(* and tag rollback, and the git / registry / hosting state they act on.   *)
(***************************************************************************)
EXTENDS Integers, Sequences, FiniteSets, TLC

(* ---------------------------------------------------------------------- *)
(* Bounds                                                                  *)
(* ---------------------------------------------------------------------- *)

\* No further run is started once a version has been published to the
\* registry this many times.
MaxPublishes == 2

(* ---------------------------------------------------------------------- *)
(* Values                                                                  *)
(* ---------------------------------------------------------------------- *)

\* Version strings that package.json may carry.
Versions == {"1.0.0"}

\* package.json readable but without a usable version field.
NoVersion == "<no-version>"

\* null / undefined
Null == "<null>"

\* `v${version}`
TagOf(version) == "v" \o version

\* Tags that may exist before the first run.
InitialTagLists ==
  { <<>>, <<"v1.0.0">>, <<"1.0.0">>, <<"v1.0.0", "v0.9.0">> }

\* What `git rev-parse --abbrev-ref HEAD` yields; BranchError: the command fails.
BranchError == "<error>"
Branches == {"main", "feature", BranchError}

PublishConfig ==
  [dryRun: BOOLEAN, skipBuild: BOOLEAN, skipTest: BOOLEAN,
   skipGitPush: BOOLEAN, skipNpmPublish: BOOLEAN, skipGitHubRelease: BOOLEAN]

\* --ci forces skipConfirm
PublishOptions ==
  { o \in [ci: BOOLEAN, skipConfirm: BOOLEAN] : o.ci => o.skipConfirm }

NoConfig ==
  [dryRun |-> FALSE, skipBuild |-> FALSE, skipTest |-> FALSE,
   skipGitPush |-> FALSE, skipNpmPublish |-> FALSE, skipGitHubRelease |-> FALSE]

\* canPublishCheck before the command has asked
NoCheck == [canPublish |-> FALSE, reason |-> "<not asked>"]

\* const result: PublishResult = { success: false, version: '', errors: [] }
EmptyResult ==
  [success |-> FALSE, version |-> "", gitTag |-> Null, npmPublished |-> FALSE,
   gitPushed |-> FALSE, gitHubReleaseCreated |-> FALSE, errors |-> <<>>]

\* type ChangeType
ChangeTypes == {"major", "minor", "patch"}

\* changesByType: { major: 0, minor: 0, patch: 0 }
NoChanges == [t \in ChangeTypes |-> 0]

\* versionInfo before calculateNextVersion is called
NotCalled ==
  [error |-> "<not called>", current |-> <<>>, next |-> <<>>, hasChanges |-> FALSE,
   changesByType |-> NoChanges]

(* ---------------------------------------------------------------------- *)
(* State                                                                   *)
(* ---------------------------------------------------------------------- *)

VARIABLES
  git,          \* [repo, clean, branch, tags (local tags, oldest first)]
  packageJson,  \* [exists, version, build, test]
  registry,     \* version -> number of real `npm publish` that succeeded
  pc,           \* position of the current run
  viaCommand,   \* TRUE: run started by the publish command; FALSE: publish() called directly
  ci,           \* --ci option of the command
  canPublishCheck, \* what canPublish() answered to the command
  config,       \* PublishConfig handed to publish()
  result,       \* PublishResult being built by publish()
  caught,       \* error caught by publish()'s catch block
  thrown,       \* error that left publish()
  exitCode,     \* process exit code of the command (Null while running)
  trace,        \* external actions of the current run, in execution order
  currentVersion, \* version text handed to calculateNextVersion
  changesets,   \* changesets handed to calculateNextVersion
  versionInfo,  \* what calculateNextVersion returned or threw
  changelog,    \* CHANGELOG.md: [exists, lines]
  added,        \* versions handed to addEntry calls that wrote the file, in call order
  lookup,       \* the last getVersionChangelog call: [version, found (not null), section]
  manifest,     \* package.json as the version command sees it: [exists, version]
  store,        \* changeset records in .changesets, oldest first
  versionRun,   \* the version command's run: [pc, dryRun, ci, steps, exitCode]
  bumps,        \* number of times the version command rewrote package.json
  consumed,     \* a version command run has completed a release and no changeset was added since
  committed,    \* git, where the repository is followed: [repo, and what the last commit
                \* holds of manifest, changelog, store, changesetsDir]
  changesetsDir, \* the directory .changesets: [exists, config (its file config.json)]
  files,        \* the other files of .changesets, in the order readdir lists them: [name, content]
  call          \* the last call of a ChangesetManager method or of the edit command

\* State of the publish pipeline
publishing == <<git, packageJson, registry, pc, viaCommand, ci, canPublishCheck, config,
                result, caught, thrown, exitCode, trace>>

\* State of the version calculation
versioning == <<currentVersion, changesets, versionInfo>>

\* State of the changelog document
documenting == <<changelog, added, lookup>>

\* State of the version command
releasing == <<manifest, store, versionRun, bumps, consumed, committed>>

\* State of the changeset store
storing == <<files, call>>

vars == <<publishing, versioning, documenting, releasing, changesetsDir, storing>>

world == <<git, packageJson, registry>>

(* ---------------------------------------------------------------------- *)
(* Readers                                                                 *)
(* ---------------------------------------------------------------------- *)

\* GitManager.tagExists
tagExists(tag) == \E i \in 1..Len(git.tags) : git.tags[i] = tag

\* GitManager.getLatestTag: null when there is no tag
getLatestTag == IF git.tags = <<>> THEN Null ELSE git.tags[Len(git.tags)]

\* VersionManager.getCurrentVersion: throws when package.json is missing,
\* unparseable or has no version
versionReadable == packageJson.exists /\ packageJson.version # NoVersion

\* PublishManager.checkPackageJson / checkBuildScript / checkTestScript
checkPackageJson == packageJson.exists
checkBuildScript == packageJson.exists /\ packageJson.build
checkTestScript == packageJson.exists /\ packageJson.test

\* canPublish comparing the latest tag with the bare version (no 'v' prefix).
canPublish_NoPrefix ==
  IF ~versionReadable
    THEN [canPublish |-> FALSE, reason |-> "cannot check publish state"]
    ELSE IF getLatestTag = packageJson.version
      THEN [canPublish |-> FALSE, reason |-> "already released"]
      ELSE [canPublish |-> TRUE, reason |-> Null]

\* PublishManager.canPublish
canPublish ==
  IF ~versionReadable
    THEN [canPublish |-> FALSE, reason |-> "cannot check publish state"]
    ELSE IF getLatestTag = TagOf(packageJson.version)
      THEN [canPublish |-> FALSE, reason |-> "already released"]
      ELSE [canPublish |-> TRUE, reason |-> Null]

\* Outcome of PublishManager.validatePrePublish: Null when it returns,
\* otherwise the error it throws.
validatePrePublish ==
  IF ~git.repo THEN "NotGitRepository"
  ELSE IF ~git.clean THEN "WorkingDirectoryNotClean"
  ELSE IF git.branch = BranchError THEN "BranchUnknown"
  ELSE IF ~checkPackageJson THEN "CriticalCheckFailed"
  ELSE Null

(* ---------------------------------------------------------------------- *)
(* Helpers                                                                 *)
(* ---------------------------------------------------------------------- *)

Ran(cmd, ok) == [cmd |-> cmd, ok |-> ok]

RemoveTag(tags, tag) == SelectSeq(tags, LAMBDA t : t # tag)

(* ---------------------------------------------------------------------- *)
(* Initial state                                                           *)
(* ---------------------------------------------------------------------- *)

GitStates ==
  { [repo |-> FALSE, clean |-> FALSE, branch |-> BranchError, tags |-> <<>>] }
  \cup
  [repo: {TRUE}, clean: BOOLEAN, branch: Branches, tags: InitialTagLists]

PackageJsonStates ==
  { [exists |-> FALSE, version |-> NoVersion, build |-> FALSE, test |-> FALSE] }
  \cup
  [exists: {TRUE}, version: Versions \cup {NoVersion}, build: BOOLEAN, test: BOOLEAN]

\* .changesets before ChangesetManager.init has ever run; config is the file
\* config.json, [name, kind, object] as the files of the directory are, of
\* kind "absent" while there is none
NoDir ==
  [exists |-> FALSE, config |-> [name |-> "config", kind |-> "absent", object |-> <<>>]]

\* call before any method of the ChangesetManager was called
NoCall == [op |-> "<none>", error |-> Null, returned |-> <<>>, input |-> Null,
           id |-> Null, checked |-> 0, free |-> FALSE]

\* An init that writes config.json whether it is there or not.
init_Overwrites(dir) ==
  [exists |-> TRUE,
   config |-> [name |-> "config", kind |-> "object",
               object |-> [changelog |-> [repo |-> "", template |-> "default"]]]]

\* ChangesetManager.init: ensureDir creates the directory when it is missing,
\* and config.json is written when it is missing.
init(dir) ==
  [exists |-> TRUE,
   config |-> IF dir.config.kind = "absent"
                THEN [name |-> "config", kind |-> "object",
                      object |-> [changelog |-> [repo |-> "", template |-> "default"]]]
              ELSE dir.config]

\* No ChangesetManager method was called; .changesets does not exist.
NoStoring ==
  /\ changesetsDir = NoDir
  /\ files = <<>>
  /\ call = NoCall

\* No version calculation is going on.
NoVersioning ==
  /\ currentVersion = <<>>
  /\ changesets = <<>>
  /\ versionInfo = NotCalled

\* getVersionChangelog has not been called.
NoLookup == [version |-> <<>>, found |-> FALSE, section |-> <<>>]

\* There is no CHANGELOG.md and nothing was added to it.
NoDocumenting ==
  /\ changelog = [exists |-> FALSE, lines |-> <<>>]
  /\ added = <<>>
  /\ lookup = NoLookup

\* versionRun when no version command is running
NoRun == [pc |-> "idle", dryRun |-> FALSE, ci |-> FALSE, steps |-> <<>>, exitCode |-> Null]

\* The files of the working tree that the version command and the changeset
\* store write, as a commit of all of them would record them
working ==
  [repo |-> TRUE, manifest |-> manifest, changelog |-> changelog, store |-> store,
   changesetsDir |-> changesetsDir]

\* GitManager.isWorkingDirectoryClean: `git status --porcelain` prints nothing
isWorkingDirectoryClean == committed = working

\* git add of the given files and git commit: the commit holds these files as
\* they are in the working tree and the others as the commit before held them
commit(paths) ==
  [f \in DOMAIN committed |-> IF f \in paths THEN working[f] ELSE committed[f]]

\* No repository is followed: git is known by its answers alone.
NoRepository ==
  [repo |-> FALSE, manifest |-> [exists |-> FALSE, version |-> <<>>],
   changelog |-> [exists |-> FALSE, lines |-> <<>>], store |-> <<>>,
   changesetsDir |-> NoDir]

\* No version command is running; there is no package.json and no changeset.
NoReleasing ==
  /\ manifest = [exists |-> FALSE, version |-> <<>>]
  /\ store = <<>>
  /\ versionRun = NoRun
  /\ bumps = 0
  /\ consumed = FALSE
  /\ committed = NoRepository

Init ==
  /\ NoVersioning
  /\ NoDocumenting
  /\ NoReleasing
  /\ NoStoring
  /\ git \in GitStates
  /\ packageJson \in PackageJsonStates
  /\ registry = [v \in Versions |-> 0]
  /\ pc = "idle"
  /\ viaCommand = FALSE
  /\ ci = FALSE
  /\ canPublishCheck = NoCheck
  /\ config = NoConfig
  /\ result = EmptyResult
  /\ caught = Null
  /\ thrown = Null
  /\ exitCode = Null
  /\ trace = <<>>

(* ---------------------------------------------------------------------- *)
(* The publish command                                                     *)
(* ---------------------------------------------------------------------- *)

\* A new run may start when no run is in progress.
CanStart ==
  /\ pc = "idle"
  /\ \A v \in Versions : registry[v] < MaxPublishes

\* The run is over: the command's process has exited, or the direct call of
\* publish() has returned or thrown.
RunOver ==
  \/ pc = "done"
  \/ ~viaCommand /\ pc \in {"returned", "threw"}

\* Nothing of a run outlives it but its effects on the repository and the
\* registry: the next run starts with a new PublishManager and a new result.
EndOfRun ==
  /\ RunOver
  /\ pc' = "idle"
  /\ viaCommand' = FALSE
  /\ ci' = FALSE
  /\ canPublishCheck' = NoCheck
  /\ config' = NoConfig
  /\ result' = EmptyResult
  /\ caught' = Null
  /\ thrown' = Null
  /\ exitCode' = Null
  /\ trace' = <<>>
  /\ UNCHANGED world
  /\ UNCHANGED <<versioning, documenting, releasing, changesetsDir, storing>>

\* publishCommand action up to the call of publish(): a run refused by the
\* canPublish gate prints the reason and exits, 0 in CI mode and 1 otherwise;
\* the confirmation is asked unless skipConfirm or dryRun, and a declined
\* prompt exits 0.
PublishCommand(opts, cfg, confirmed) ==
  /\ CanStart
  /\ viaCommand' = TRUE
  /\ ci' = opts.ci
  /\ canPublishCheck' = canPublish
  /\ config' = cfg
  /\ IF ~canPublish.canPublish
       THEN /\ pc' = "done"
            /\ exitCode' = IF opts.ci THEN 0 ELSE 1
       ELSE IF ~opts.skipConfirm /\ ~cfg.dryRun /\ ~confirmed
         THEN /\ pc' = "done"
              /\ exitCode' = 0
         ELSE /\ pc' = "validate"
              /\ exitCode' = Null
  /\ UNCHANGED <<world, result, caught, thrown, trace>>
  /\ UNCHANGED <<versioning, documenting, releasing, changesetsDir, storing>>

\* publishCommand action after publish() returned: report, normal exit.
CommandReport ==
  /\ pc = "returned"
  /\ viaCommand
  /\ pc' = "done"
  /\ exitCode' = 0
  /\ UNCHANGED <<world, viaCommand, ci, canPublishCheck, config, result, caught, thrown, trace>>
  /\ UNCHANGED <<versioning, documenting, releasing, changesetsDir, storing>>

\* publishCommand action, catch: report the error, process.exit(1).
CommandCatch ==
  /\ pc = "threw"
  /\ viaCommand
  /\ pc' = "done"
  /\ exitCode' = 1
  /\ UNCHANGED <<world, viaCommand, ci, canPublishCheck, config, result, caught, thrown, trace>>
  /\ UNCHANGED <<versioning, documenting, releasing, changesetsDir, storing>>

(* ---------------------------------------------------------------------- *)
(* PublishManager.publish                                                  *)
(* ---------------------------------------------------------------------- *)

\* PublishManager.publish called directly with a config.
Publish(cfg) ==
  /\ CanStart
  /\ viaCommand' = FALSE
  /\ config' = cfg
  /\ pc' = "validate"
  /\ UNCHANGED <<world, ci, canPublishCheck, result, caught, thrown, exitCode, trace>>
  /\ UNCHANGED <<versioning, documenting, releasing, changesetsDir, storing>>

\* A stage threw: control goes to publish()'s catch block.
Throw(err) ==
  /\ caught' = err
  /\ pc' = "catch"

\* 1. validatePrePublish
Validate ==
  /\ pc = "validate"
  /\ LET err == validatePrePublish IN
       IF err = Null
         THEN /\ trace' = Append(trace, Ran("validate", TRUE))
              /\ pc' = "version"
              /\ caught' = caught
         ELSE /\ trace' = Append(trace, Ran("validate", FALSE))
              /\ Throw(err)
  /\ UNCHANGED <<world, viaCommand, ci, canPublishCheck, config, result, thrown, exitCode>>
  /\ UNCHANGED <<versioning, documenting, releasing, changesetsDir, storing>>

\* 2. getCurrentVersion
ReadVersion ==
  /\ pc = "version"
  /\ IF versionReadable
       THEN /\ result' = [result EXCEPT !.version = packageJson.version]
            /\ pc' = "build"
            /\ caught' = caught
       ELSE /\ result' = result
            /\ Throw("VersionUnreadable")
  /\ UNCHANGED <<world, viaCommand, ci, canPublishCheck, config, thrown, exitCode, trace>>
  /\ UNCHANGED <<versioning, documenting, releasing, changesetsDir, storing>>

\* runBuild whose failure is swallowed: the pipeline goes on to the tests.
RunBuild_Continue ==
  /\ pc = "build"
  /\ IF config.skipBuild \/ ~checkBuildScript
       THEN pc' = "test" /\ UNCHANGED <<trace, caught>>
       ELSE \E ok \in BOOLEAN :
              /\ trace' = Append(trace, Ran("npm run build", ok))
              /\ pc' = "test"
              /\ caught' = caught
  /\ UNCHANGED <<world, viaCommand, ci, canPublishCheck, config, result, thrown, exitCode>>
  /\ UNCHANGED <<versioning, documenting, releasing, changesetsDir, storing>>

\* 3. runBuild unless skipBuild; without a build script nothing is executed.
RunBuild ==
  /\ pc = "build"
  /\ IF config.skipBuild \/ ~checkBuildScript
       THEN pc' = "test" /\ UNCHANGED <<trace, caught>>
       ELSE \E ok \in BOOLEAN :
              /\ trace' = Append(trace, Ran("npm run build", ok))
              /\ IF ok THEN pc' = "test" /\ caught' = caught
                       ELSE Throw("BuildFailed")
  /\ UNCHANGED <<world, viaCommand, ci, canPublishCheck, config, result, thrown, exitCode>>
  /\ UNCHANGED <<versioning, documenting, releasing, changesetsDir, storing>>

\* 4. runTests unless skipTest; without a test script nothing is executed.
RunTests ==
  /\ pc = "test"
  /\ IF config.skipTest \/ ~checkTestScript
       THEN pc' = "tag" /\ UNCHANGED <<trace, caught>>
       ELSE \E ok \in BOOLEAN :
              /\ trace' = Append(trace, Ran("npm test", ok))
              /\ IF ok THEN pc' = "tag" /\ caught' = caught
                       ELSE Throw("TestFailed")
  /\ UNCHANGED <<world, viaCommand, ci, canPublishCheck, config, result, thrown, exitCode>>
  /\ UNCHANGED <<versioning, documenting, releasing, changesetsDir, storing>>

\* A publish() that notes the tag in result.gitTag before createAndPushTag
\* has made it.
CreateAndPushTag_NotedFirst ==
  /\ pc = "tag"
  /\ LET tag == TagOf(result.version) IN
       IF config.skipGitPush
         THEN pc' = "npm" /\ UNCHANGED <<git, result, trace, caught>>
       ELSE IF tagExists(tag)
         THEN /\ Throw("TagExists")
              /\ result' = [result EXCEPT !.gitTag = tag]
              /\ UNCHANGED <<git, trace>>
       ELSE
         \/ /\ trace' = Append(trace, Ran("git tag", FALSE))
            /\ Throw("TagCreateFailed")
            /\ UNCHANGED <<git, result>>
         \/ /\ git' = [git EXCEPT !.tags = Append(@, tag)]
            /\ trace' = trace \o <<Ran("git tag", TRUE), Ran("git push", FALSE)>>
            /\ Throw("PushFailed")
            /\ UNCHANGED result
         \/ /\ git' = [git EXCEPT !.tags = Append(@, tag)]
            /\ trace' = trace \o <<Ran("git tag", TRUE), Ran("git push", TRUE)>>
            /\ result' = [result EXCEPT !.gitTag = tag, !.gitPushed = TRUE]
            /\ pc' = "npm"
            /\ caught' = caught
  /\ UNCHANGED <<packageJson, registry, viaCommand, ci, canPublishCheck, config,
                 thrown, exitCode>>
  /\ UNCHANGED <<versioning, documenting, releasing, changesetsDir, storing>>

\* 5. createAndPushTag unless skipGitPush: refuse an existing tag, git tag,
\*    git push --follow-tags; result.gitTag is assigned only when both succeed.
CreateAndPushTag ==
  /\ pc = "tag"
  /\ LET tag == TagOf(result.version) IN
       IF config.skipGitPush
         THEN pc' = "npm" /\ UNCHANGED <<git, result, trace, caught>>
       ELSE IF tagExists(tag)
         THEN Throw("TagExists") /\ UNCHANGED <<git, result, trace>>
       ELSE
         \/ /\ trace' = Append(trace, Ran("git tag", FALSE))
            /\ Throw("TagCreateFailed")
            /\ UNCHANGED <<git, result>>
         \/ /\ git' = [git EXCEPT !.tags = Append(@, tag)]
            /\ trace' = trace \o <<Ran("git tag", TRUE), Ran("git push", FALSE)>>
            /\ Throw("PushFailed")
            /\ UNCHANGED result
         \/ /\ git' = [git EXCEPT !.tags = Append(@, tag)]
            /\ trace' = trace \o <<Ran("git tag", TRUE), Ran("git push", TRUE)>>
            /\ result' = [result EXCEPT !.gitTag = tag, !.gitPushed = TRUE]
            /\ pc' = "npm"
            /\ caught' = caught
  /\ UNCHANGED <<packageJson, registry, viaCommand, ci, canPublishCheck, config,
                 thrown, exitCode>>
  /\ UNCHANGED <<versioning, documenting, releasing, changesetsDir, storing>>

\* publishToNpm that runs whatever skipNpmPublish says.
PublishToNpm_NoSkip ==
  /\ pc = "npm"
  /\ \E ok \in BOOLEAN :
       LET cmd == IF config.dryRun THEN "npm publish --dry-run"
                                   ELSE "npm publish" IN
       /\ trace' = Append(trace, Ran(cmd, ok))
       /\ IF ok
            THEN /\ registry' = IF config.dryRun THEN registry
                                ELSE [registry EXCEPT ![result.version] = @ + 1]
                 /\ result' = [result EXCEPT !.npmPublished = TRUE]
                 /\ pc' = "release"
                 /\ caught' = caught
            ELSE /\ Throw("NpmPublishFailed")
                 /\ UNCHANGED <<registry, result>>
  /\ UNCHANGED <<git, packageJson, viaCommand, ci, canPublishCheck, config,
                 thrown, exitCode>>
  /\ UNCHANGED <<versioning, documenting, releasing, changesetsDir, storing>>

\* A publishToNpm that consumes the changesets before it publishes.
PublishToNpm_Consumes ==
  /\ pc = "npm"
  /\ IF config.skipNpmPublish
       THEN pc' = "release" /\ UNCHANGED <<registry, result, trace, caught>>
       ELSE \E ok \in BOOLEAN :
              LET cmd == IF config.dryRun THEN "npm publish --dry-run"
                                          ELSE "npm publish" IN
              /\ trace' = Append(trace, Ran(cmd, ok))
              /\ IF ok
                   THEN /\ registry' = IF config.dryRun THEN registry
                                       ELSE [registry EXCEPT ![result.version] = @ + 1]
                        /\ result' = [result EXCEPT !.npmPublished = TRUE]
                        /\ pc' = "release"
                        /\ caught' = caught
                   ELSE /\ Throw("NpmPublishFailed")
                        /\ UNCHANGED <<registry, result>>
  /\ store' = IF config.skipNpmPublish THEN store ELSE <<>>
  /\ files' = IF config.skipNpmPublish THEN files ELSE <<>>
  /\ UNCHANGED <<git, packageJson, viaCommand, ci, canPublishCheck, config,
                 thrown, exitCode>>
  /\ UNCHANGED <<versioning, documenting, manifest, versionRun, bumps, consumed,
                 committed, changesetsDir, call>>

\* 6. publishToNpm unless skipNpmPublish; dryRun appends --dry-run to the
\*    command, which then publishes nothing.
PublishToNpm ==
  /\ pc = "npm"
  /\ IF config.skipNpmPublish
       THEN pc' = "release" /\ UNCHANGED <<registry, result, trace, caught>>
       ELSE \E ok \in BOOLEAN :
              LET cmd == IF config.dryRun THEN "npm publish --dry-run"
                                          ELSE "npm publish" IN
              /\ trace' = Append(trace, Ran(cmd, ok))
              /\ IF ok
                   THEN /\ registry' = IF config.dryRun THEN registry
                                       ELSE [registry EXCEPT ![result.version] = @ + 1]
                        /\ result' = [result EXCEPT !.npmPublished = TRUE]
                        /\ pc' = "release"
                        /\ caught' = caught
                   ELSE /\ Throw("NpmPublishFailed")
                        /\ UNCHANGED <<registry, result>>
  /\ UNCHANGED <<git, packageJson, viaCommand, ci, canPublishCheck, config,
                 thrown, exitCode>>
  /\ UNCHANGED <<versioning, documenting, releasing, changesetsDir, storing>>

\* What createGitHubRelease meets: gh not installed, gh not authenticated, no
\* GitHub repository info, `gh release create` failing, or success.
GhOutcomes == {"missing", "unauthenticated", "norepo", "failed", "created"}

\* External commands run by createGitHubRelease for each outcome.
GhCommands(gh) ==
  IF gh = "missing" THEN <<Ran("gh --version", FALSE)>>
  ELSE IF gh = "unauthenticated"
    THEN <<Ran("gh --version", TRUE), Ran("gh auth status", FALSE)>>
  ELSE IF gh = "norepo"
    THEN <<Ran("gh --version", TRUE), Ran("gh auth status", TRUE)>>
  ELSE <<Ran("gh --version", TRUE), Ran("gh auth status", TRUE),
         Ran("gh release create", gh = "created")>>

\* createGitHubRelease without the inner try/catch: its error reaches the
\* catch block of publish().
CreateGitHubRelease_Fatal ==
  /\ pc = "release"
  /\ IF config.skipGitHubRelease \/ config.dryRun
       THEN /\ result' = [result EXCEPT !.success = TRUE]
            /\ trace' = trace
            /\ pc' = "returned"
            /\ caught' = caught
       ELSE \E gh \in GhOutcomes :
              /\ trace' = trace \o GhCommands(gh)
              /\ IF gh = "created"
                   THEN /\ result' = [result EXCEPT !.gitHubReleaseCreated = TRUE,
                                                    !.success = TRUE]
                        /\ pc' = "returned"
                        /\ caught' = caught
                   ELSE /\ result' = result
                        /\ Throw("GitHubReleaseFailed")
  /\ UNCHANGED <<world, viaCommand, ci, canPublishCheck, config,
                 thrown, exitCode>>
  /\ UNCHANGED <<versioning, documenting, releasing, changesetsDir, storing>>

\* 7. createGitHubRelease unless skipGitHubRelease or dryRun; its error is
\*    caught and logged; then result.success = true and publish() returns.
CreateGitHubRelease ==
  /\ pc = "release"
  /\ IF config.skipGitHubRelease \/ config.dryRun
       THEN /\ result' = [result EXCEPT !.success = TRUE]
            /\ trace' = trace
       ELSE \E gh \in GhOutcomes :
              /\ trace' = trace \o GhCommands(gh)
              /\ result' = [result EXCEPT !.gitHubReleaseCreated = (gh = "created"),
                                          !.success = TRUE]
  /\ pc' = "returned"
  /\ UNCHANGED <<world, viaCommand, ci, canPublishCheck, config,
                 caught, thrown, exitCode>>
  /\ UNCHANGED <<versioning, documenting, releasing, changesetsDir, storing>>

\* Rollback condition that forgets the case it is for.
rollbackNeeded_Never ==
  result.gitTag # Null /\ result.npmPublished /\ ~config.skipNpmPublish

\* publish()'s rollback condition
rollbackNeeded ==
  result.gitTag # Null /\ ~result.npmPublished /\ ~config.skipNpmPublish

\* catch block of publish(): record the error; when a tag was created and the
\* registry publish did not succeed, GitManager.deleteTag(result.gitTag):
\* git tag -d, then (error ignored) git push origin --delete.
Rollback ==
  /\ pc = "catch"
  /\ IF rollbackNeeded
       THEN
         \/ /\ trace' = Append(trace, Ran("git tag -d", FALSE))
            /\ result' = [result EXCEPT !.errors = <<caught, "TagRollbackFailed">>]
            /\ git' = git
         \/ /\ git' = [git EXCEPT !.tags = RemoveTag(@, result.gitTag)]
            /\ trace' = trace \o <<Ran("git tag -d", TRUE),
                                    Ran("git push --delete", FALSE)>>
            /\ result' = [result EXCEPT !.errors = <<caught>>]
         \/ /\ git' = [git EXCEPT !.tags = RemoveTag(@, result.gitTag)]
            /\ trace' = trace \o <<Ran("git tag -d", TRUE),
                                    Ran("git push --delete", TRUE)>>
            /\ result' = [result EXCEPT !.errors = <<caught>>]
       ELSE /\ result' = [result EXCEPT !.errors = <<caught>>]
            /\ UNCHANGED <<git, trace>>
  /\ pc' = "rethrow"
  /\ UNCHANGED <<packageJson, registry, viaCommand, ci, canPublishCheck, config,
                 caught, thrown, exitCode>>
  /\ UNCHANGED <<versioning, documenting, releasing, changesetsDir, storing>>

\* Rethrow of the last recorded error instead of the original one.
Rethrow_LastError ==
  /\ pc = "rethrow"
  /\ thrown' = result.errors[Len(result.errors)]
  /\ pc' = "threw"
  /\ UNCHANGED <<world, viaCommand, ci, canPublishCheck, config, result, caught, exitCode, trace>>
  /\ UNCHANGED <<versioning, documenting, releasing, changesetsDir, storing>>

\* `throw error` at the end of the catch block
Rethrow ==
  /\ pc = "rethrow"
  /\ thrown' = caught
  /\ pc' = "threw"
  /\ UNCHANGED <<world, viaCommand, ci, canPublishCheck, config, result, caught, exitCode, trace>>
  /\ UNCHANGED <<versioning, documenting, releasing, changesetsDir, storing>>

(* ---------------------------------------------------------------------- *)
(* Specifications                                                          *)
(* ---------------------------------------------------------------------- *)

Pipeline ==
  \/ Validate
  \/ ReadVersion
  \/ RunBuild
  \/ RunTests
  \/ CreateAndPushTag
  \/ PublishToNpm
  \/ CreateGitHubRelease
  \/ Rollback
  \/ Rethrow

Command ==
  \/ \E opts \in PublishOptions, cfg \in PublishConfig, confirmed \in BOOLEAN :
       PublishCommand(opts, cfg, confirmed)
  \/ CommandReport
  \/ CommandCatch

Next ==
  \/ \E cfg \in PublishConfig : Publish(cfg)
  \/ Command
  \/ Pipeline
  \/ EndOfRun

\* Runs started by the publish command or by a direct publish() call.
Spec == Init /\ [][Next]_vars

NextCommand ==
  \/ Command
  \/ Pipeline
  \/ EndOfRun

\* Every run is started by the publish command.
SpecCommand == Init /\ [][NextCommand]_vars

(* ---------------------------------------------------------------------- *)
(* VersionManager: parseVersion, calculateNextVersion, compareVersions     *)
(* ---------------------------------------------------------------------- *)

\* A version text may have up to this many dot-separated components.
MaxParts == 4

\* calculateNextVersion is handed up to this many changesets.
MaxChangesets == 3

\* A text is a sequence of characters.
Digits == <<"0", "1", "2", "3", "4", "5", "6", "7", "8", "9">>

IsDigit(c) == \E d \in 1..Len(Digits) : Digits[d] = c

DigitValue(c) == (CHOOSE d \in 1..Len(Digits) : Digits[d] = c) - 1

\* Value of a run of decimal digits.
RECURSIVE NumberOf(_)
NumberOf(ds) ==
  IF ds = <<>> THEN 0
  ELSE NumberOf(SubSeq(ds, 1, Len(ds) - 1)) * Len(Digits) + DigitValue(ds[Len(ds)])

\* `${n}` for a non-negative integer n
RECURSIVE numberToString(_)
numberToString(n) ==
  IF n < Len(Digits) THEN <<Digits[n + 1]>>
  ELSE numberToString(n \div Len(Digits)) \o <<Digits[(n % Len(Digits)) + 1]>>

\* version.replace(/^v/, '')
StripV(version) ==
  IF version # <<>> /\ Head(version) = "v" THEN Tail(version) ELSE version

\* cleanVersion.split('.'), reading from position i with the part cur begun
RECURSIVE SplitFrom(_, _, _)
SplitFrom(text, i, cur) ==
  IF i > Len(text) THEN <<cur>>
  ELSE IF text[i] = "." THEN <<cur>> \o SplitFrom(text, i + 1, <<>>)
  ELSE SplitFrom(text, i + 1, Append(cur, text[i]))

split(text) == SplitFrom(text, 1, <<>>)

\* Number of leading characters of text that are in chars
LeadingRun(text, chars) ==
  CHOOSE n \in 0..Len(text) :
    /\ \A i \in 1..n : text[i] \in chars
    /\ n < Len(text) => text[n + 1] \notin chars

WhiteSpace == {" "}

DigitChars == { Digits[d] : d \in 1..Len(Digits) }

\* parseInt(part, 10): leading white space is skipped, a sign is taken, then
\* the longest run of digits is the number and whatever follows is ignored;
\* NaN when there is no digit at that place.
parseInt(part) ==
  LET trimmed == SubSeq(part, LeadingRun(part, WhiteSpace) + 1, Len(part))
      signed == trimmed # <<>> /\ Head(trimmed) \in {"+", "-"}
      body == IF signed THEN Tail(trimmed) ELSE trimmed
      n == LeadingRun(body, DigitChars)
      magnitude == NumberOf(SubSeq(body, 1, n))
  IN IF n = 0 THEN [nan |-> TRUE, num |-> 0]
     ELSE [nan |-> FALSE,
           num |-> IF signed /\ Head(trimmed) = "-" THEN -magnitude ELSE magnitude]

NoNumbers == [major |-> 0, minor |-> 0, patch |-> 0]

\* VersionManager.parseVersion: error is Null when it returns
parseVersion(version) ==
  LET parts == split(StripV(version)) IN
    IF Len(parts) # 3
      THEN [error |-> "InvalidVersionFormat"] @@ NoNumbers
    ELSE LET nums == [i \in 1..3 |-> parseInt(parts[i])] IN
      IF \E i \in 1..3 : nums[i].nan \/ nums[i].num < 0
        THEN [error |-> "InvalidVersionNumber"] @@ NoNumbers
        ELSE [error |-> Null, major |-> nums[1].num, minor |-> nums[2].num,
              patch |-> nums[3].num]

\* VersionManager.isValidVersion
isValidVersion(version) == parseVersion(version).error = Null

\* compareVersions that looks at the major number only.
compareVersions_MajorOnly(v1, v2) ==
  parseVersion(v1).major - parseVersion(v2).major

\* VersionManager.compareVersions (both versions parse)
compareVersions(v1, v2) ==
  LET parsed1 == parseVersion(v1)
      parsed2 == parseVersion(v2)
  IN IF parsed1.major # parsed2.major THEN parsed1.major - parsed2.major
     ELSE IF parsed1.minor # parsed2.minor THEN parsed1.minor - parsed2.minor
     ELSE parsed1.patch - parsed2.patch

\* A count that only records whether a type is present.
countByType_Presence(list) ==
  [t \in ChangeTypes |-> IF \E i \in 1..Len(list) : list[i].type = t THEN 1 ELSE 0]

\* changesets.reduce(...): number of changesets of each type
countByType(list) ==
  [t \in ChangeTypes |-> Cardinality({i \in 1..Len(list) : list[i].type = t})]

\* A major bump that leaves minor and patch as they were.
bump_MajorKeepsRest(parsed, changesByType) ==
  IF changesByType["major"] > 0
    THEN [parsed EXCEPT !.major = @ + 1]
  ELSE IF changesByType["minor"] > 0
    THEN [parsed EXCEPT !.minor = @ + 1, !.patch = 0]
  ELSE IF changesByType["patch"] > 0
    THEN [parsed EXCEPT !.patch = @ + 1]
  ELSE parsed

\* A minor bump that leaves patch as it was.
bump_MinorKeepsPatch(parsed, changesByType) ==
  IF changesByType["major"] > 0
    THEN [parsed EXCEPT !.major = @ + 1, !.minor = 0, !.patch = 0]
  ELSE IF changesByType["minor"] > 0
    THEN [parsed EXCEPT !.minor = @ + 1]
  ELSE IF changesByType["patch"] > 0
    THEN [parsed EXCEPT !.patch = @ + 1]
  ELSE parsed

\* A patch bump by the number of patch changesets.
bump_PatchByCount(parsed, changesByType) ==
  IF changesByType["major"] > 0
    THEN [parsed EXCEPT !.major = @ + 1, !.minor = 0, !.patch = 0]
  ELSE IF changesByType["minor"] > 0
    THEN [parsed EXCEPT !.minor = @ + 1, !.patch = 0]
  ELSE IF changesByType["patch"] > 0
    THEN [parsed EXCEPT !.patch = @ + changesByType["patch"]]
  ELSE parsed

\* The semantic-versioning rule of calculateNextVersion
bump(parsed, changesByType) ==
  IF changesByType["major"] > 0
    THEN [parsed EXCEPT !.major = @ + 1, !.minor = 0, !.patch = 0]
  ELSE IF changesByType["minor"] > 0
    THEN [parsed EXCEPT !.minor = @ + 1, !.patch = 0]
  ELSE IF changesByType["patch"] > 0
    THEN [parsed EXCEPT !.patch = @ + 1]
  ELSE parsed

\* `${major}.${minor}.${patch}`
formatVersion(v) ==
  numberToString(v.major) \o <<".">> \o numberToString(v.minor) \o <<".">> \o numberToString(v.patch)

\* A rule that is decided by the type of the first changeset alone.
calculateNextVersion_FirstDecides(version, list) ==
  LET parsed == parseVersion(version)
      first == [t \in ChangeTypes |-> IF list[1].type = t THEN 1 ELSE 0]
  IN IF parsed.error # Null
       THEN [NotCalled EXCEPT !.error = parsed.error]
     ELSE IF Len(list) = 0
       THEN [error |-> Null, current |-> version, next |-> version,
             hasChanges |-> FALSE, changesByType |-> NoChanges]
     ELSE [error |-> Null, current |-> version,
           next |-> formatVersion(bump(parsed, first)),
           hasChanges |-> TRUE, changesByType |-> countByType(list)]

\* calculateNextVersion without the early return for an empty list.
calculateNextVersion_NoEmptyCase(version, list) ==
  LET parsed == parseVersion(version) IN
    IF parsed.error # Null
      THEN [NotCalled EXCEPT !.error = parsed.error]
    ELSE [error |-> Null, current |-> version,
          next |-> formatVersion(bump(parsed, countByType(list))),
          hasChanges |-> TRUE, changesByType |-> countByType(list)]

\* VersionManager.calculateNextVersion: the VersionInfo it returns (error =
\* Null) or the error parseVersion throws
calculateNextVersion(version, list) ==
  LET parsed == parseVersion(version) IN
    IF parsed.error # Null
      THEN [NotCalled EXCEPT !.error = parsed.error]
    ELSE IF Len(list) = 0
      THEN [error |-> Null, current |-> version, next |-> version,
            hasChanges |-> FALSE, changesByType |-> NoChanges]
    ELSE [error |-> Null, current |-> version,
          next |-> formatVersion(bump(parsed, countByType(list))),
          hasChanges |-> TRUE, changesByType |-> countByType(list)]

\* Components a version text is made of: numbers, an empty component, a
\* number followed by a pre-release suffix, a negative number.
ComponentTexts ==
  { <<>>, <<"0">>, <<"9">>, <<"2", "-", "b">>, <<"-", "1">> }

\* parts.join('.')
RECURSIVE join(_)
join(parts) ==
  IF Len(parts) = 1 THEN parts[1]
  ELSE parts[1] \o <<".">> \o join(Tail(parts))

\* Version texts handed to the VersionManager, with and without 'v' prefix
VersionTexts ==
  { prefix \o join(parts) :
      prefix \in { <<>>, <<"v">> },
      parts \in UNION { [1..n -> ComponentTexts] : n \in 1..MaxParts } }
    \cup { <<"1", ".", "0", ".", "2">> }

ChangesetLists ==
  UNION { [1..n -> [type : ChangeTypes]] : n \in 0..MaxChangesets }

\* No publish run is going on and there is nothing to publish from.
NoPublishing ==
  /\ git = [repo |-> FALSE, clean |-> FALSE, branch |-> BranchError, tags |-> <<>>]
  /\ packageJson = [exists |-> FALSE, version |-> NoVersion, build |-> FALSE,
                    test |-> FALSE]
  /\ registry = [v \in Versions |-> 0]
  /\ pc = "idle"
  /\ viaCommand = FALSE
  /\ ci = FALSE
  /\ canPublishCheck = NoCheck
  /\ config = NoConfig
  /\ result = EmptyResult
  /\ caught = Null
  /\ thrown = Null
  /\ exitCode = Null
  /\ trace = <<>>

InitVersion ==
  /\ NoPublishing
  /\ NoDocumenting
  /\ NoReleasing
  /\ NoStoring
  /\ currentVersion \in VersionTexts
  /\ changesets \in ChangesetLists
  /\ versionInfo = NotCalled

\* The call versionManager.calculateNextVersion(currentVersion, changesets)
CalculateNextVersion ==
  /\ versionInfo = NotCalled
  /\ versionInfo' = calculateNextVersion(currentVersion, changesets)
  /\ UNCHANGED <<changesetsDir, storing, publishing, documenting, releasing, currentVersion, changesets>>

NextVersion == CalculateNextVersion

\* calculateNextVersion applied to every version text and changeset list
SpecVersion == InitVersion /\ [][NextVersion]_vars

(* ---------------------------------------------------------------------- *)
(* ChangelogManager: addEntry, insertNewEntry                              *)
(* ---------------------------------------------------------------------- *)

\* addEntry writes the document up to this many times.
MaxEntries == 3

\* An entry is generated from up to this many changesets.
MaxEntryChangesets == 1

\* The document is a sequence of lines (content.split('\n'), joined again
\* with '\n'); a line is a sequence of pieces of text, the first piece being
\* what startsWith looks at.
Blank == <<>>

\* line.startsWith(prefix)
startsWith(line, prefix) == line # <<>> /\ line[1] = prefix

\* line.trim() === ''
trimsToEmpty(line) == \A i \in 1..Len(line) : line[i] \in {"", " "}

\* The three lines of text of createInitialChangelog; the two description
\* lines are in Korean in the source and stand here by their first words.
TitleLine == <<"# Changelog">>
NotableLine == <<"modeun jumoghal", " manhan byeongyeongsahang ...">>
SemverLine == <<"i peulojegteuneun", " [Semantic Versioning] ...">>

\* ChangelogManager.createInitialChangelog, as lines
createInitialChangelog ==
  <<TitleLine, Blank, NotableLine, Blank, SemverLine, Blank, Blank>>

\* new Date().toISOString().split('T')[0]
Today == "2024-01-01"

\* `## v${entry.version} (${entry.date})`
headingLine(version, date) == <<"## v">> \o version \o <<" (", date, ")">>

\* this.config.categories of the default configuration
categories ==
  [major |-> "Breaking Changes", minor |-> "Features", patch |-> "Bug Fixes"]

\* ChangelogManager.createChangelogEntry
createChangelogEntry(version, list) ==
  [version |-> version, date |-> Today,
   changes |-> [t \in ChangeTypes |-> SelectSeq(list, LAMBDA cs : cs.type = t)]]

\* One category of generateDefaultTemplate: nothing for an empty category,
\* otherwise its heading, a blank line, one item per changeset, a blank line.
categoryLines(entry, type) ==
  IF Len(entry.changes[type]) = 0 THEN <<>>
  ELSE <<<<"### ", categories[type]>>, Blank>>
       \o [i \in 1..Len(entry.changes[type]) |->
             <<"- ", entry.changes[type][i].summary>>]
       \o <<Blank>>

\* ChangelogManager.generateDefaultTemplate, as lines
generateDefaultTemplate(entry) ==
  <<headingLine(entry.version, entry.date), Blank>>
    \o categoryLines(entry, "major")
    \o categoryLines(entry, "minor")
    \o categoryLines(entry, "patch")

\* Lines that insertNewEntry steps over after the title
skipped(line) ==
  \/ trimsToEmpty(line)
  \/ startsWith(line, NotableLine[1])
  \/ startsWith(line, SemverLine[1])

\* insertNewEntry that puts the new entry at the end of the document.
insertNewEntry_AtEnd(existingLines, newEntry) ==
  existingLines \o <<Blank>> \o newEntry

\* insertNewEntry that keeps the title only and leaves out the lines it
\* stepped over.
insertNewEntry_DropSkipped(existingLines, newEntry) ==
  LET titles == { i \in 1..Len(existingLines) :
                    startsWith(existingLines[i], TitleLine[1]) }
  IN IF titles = {} THEN newEntry \o existingLines
     ELSE LET title == CHOOSE i \in titles : \A j \in titles : i <= j
              insertIndex ==
                CHOOSE k \in (title + 1)..(Len(existingLines) + 1) :
                  /\ \A j \in (title + 1)..(k - 1) : skipped(existingLines[j])
                  /\ k <= Len(existingLines) => ~skipped(existingLines[k])
          IN SubSeq(existingLines, 1, title) \o <<Blank>> \o newEntry
               \o SubSeq(existingLines, insertIndex, Len(existingLines))

\* ChangelogManager.insertNewEntry on lines: after the first title line and
\* the blank and description lines that follow it, or at the very top when
\* there is no title line. insertIndex is the first line of `after`.
insertNewEntry(existingLines, newEntry) ==
  LET titles == { i \in 1..Len(existingLines) :
                    startsWith(existingLines[i], TitleLine[1]) }
  IN IF titles = {} THEN newEntry \o existingLines
     ELSE LET title == CHOOSE i \in titles : \A j \in titles : i <= j
              insertIndex ==
                CHOOSE k \in (title + 1)..(Len(existingLines) + 1) :
                  /\ \A j \in (title + 1)..(k - 1) : skipped(existingLines[j])
                  /\ k <= Len(existingLines) => ~skipped(existingLines[k])
          IN SubSeq(existingLines, 1, insertIndex - 1) \o <<Blank>> \o newEntry
               \o SubSeq(existingLines, insertIndex, Len(existingLines))

\* What addEntry reads: the file, or the initial document when it is missing
existingContent ==
  IF changelog.exists THEN changelog.lines ELSE createInitialChangelog

\* A section written by an earlier release
OldSection ==
  <<headingLine(<<"0", ".", "9", ".", "0">>, "2023-12-31"), Blank,
    <<"- ", "first release">>, Blank>>

\* CHANGELOG.md before the first addEntry: missing, the generated initial
\* document, an empty file, a document without title line that has a
\* section, and a titled document with a description of its own.
InitialChangelogs ==
  { [exists |-> FALSE, lines |-> <<>>],
    [exists |-> TRUE, lines |-> createInitialChangelog],
    [exists |-> TRUE, lines |-> <<Blank>>],
    [exists |-> TRUE, lines |-> OldSection],
    [exists |-> TRUE,
     lines |-> <<TitleLine, Blank, <<"All notable changes">>, Blank>> \o OldSection] }

\* Versions that entries are written for
EntryVersions == { <<"1", ".", "0", ".", "0">>, <<"1", ".", "1", ".", "0">> }

Summaries == {"fix crash"}

EntryChangesets ==
  UNION { [1..n -> [type : ChangeTypes, summary : Summaries]] :
            n \in 0..MaxEntryChangesets }

InitChangelog ==
  /\ NoPublishing
  /\ NoVersioning
  /\ NoReleasing
  /\ NoStoring
  /\ changelog \in InitialChangelogs
  /\ added = <<>>
  /\ lookup = NoLookup

\* ChangelogManager.addEntry: the file it writes
addEntry(version, list) ==
  [exists |-> TRUE,
   lines |-> insertNewEntry(existingContent,
               generateDefaultTemplate(createChangelogEntry(version, list)))]

\* The call addEntry(version, list), the write succeeding
AddEntry(version, list) ==
  /\ Len(added) < MaxEntries
  /\ changelog' = addEntry(version, list)
  /\ added' = Append(added, version)
  /\ UNCHANGED <<lookup, changesetsDir, storing, publishing, versioning, releasing>>

NextChangelog ==
  \E version \in EntryVersions, list \in EntryChangesets : AddEntry(version, list)

\* Sequences of addEntry calls on one document
SpecChangelog == InitChangelog /\ [][NextChangelog]_vars

(* ---------------------------------------------------------------------- *)
(* ChangelogManager: getVersionChangelog                                   *)
(* ---------------------------------------------------------------------- *)

\* line.startsWith(text), the text given by its pieces
startsWithText(line, text) ==
  Len(line) >= Len(text) /\ SubSeq(line, 1, Len(text)) = text

\* lines.join('\n').trim(), as lines: without the blank lines at the end
trimLines(lines) ==
  LET kept == { i \in 1..Len(lines) : ~trimsToEmpty(lines[i]) }
  IN IF kept = {} THEN <<>>
     ELSE SubSeq(lines, 1, CHOOSE i \in kept : \A j \in kept : j <= i)

\* ChangelogManager.getVersionChangelog: from the first line that starts with
\* `## v${version}` up to the next line that starts with '## v' or the end of
\* the file; null (found = FALSE) when there is no such line or the file
\* cannot be read.
getVersionChangelog(file, version) ==
  LET lines == file.lines
      starts == { i \in 1..Len(lines) : startsWithText(lines[i], <<"## v">> \o version) }
  IN IF ~file.exists \/ starts = {} THEN [found |-> FALSE, section |-> <<>>]
     ELSE LET startIndex == CHOOSE i \in starts : \A j \in starts : i <= j
              ends == { i \in (startIndex + 1)..Len(lines) : startsWith(lines[i], "## v") }
              endIndex == IF ends = {} THEN Len(lines) + 1
                          ELSE CHOOSE i \in ends : \A j \in ends : i <= j
          IN [found |-> TRUE,
              section |-> trimLines(SubSeq(lines, startIndex, endIndex - 1))]

\* Versions that are added and looked up: one is the beginning of another.
LookupVersions ==
  { <<"1", ".", "0", ".", "1">>, <<"1", ".", "0", ".", "1", "0">>,
    <<"1", ".", "1", ".", "0">> }

LookupChangesets == { <<>>, <<[type |-> "patch", summary |-> "fix crash"]>> }

\* The call getVersionChangelog(version)
GetVersionChangelog(version) ==
  /\ lookup' = [version |-> version,
                found |-> getVersionChangelog(changelog, version).found,
                section |-> getVersionChangelog(changelog, version).section]
  /\ UNCHANGED <<changelog, added, changesetsDir, storing, publishing, versioning, releasing>>

NextLookup ==
  \/ \E version \in LookupVersions, list \in LookupChangesets : AddEntry(version, list)
  \/ \E version \in LookupVersions : GetVersionChangelog(version)

\* addEntry and getVersionChangelog calls on one document
SpecLookup == InitChangelog /\ [][NextLookup]_vars

(* ---------------------------------------------------------------------- *)
(* The version command                                                     *)
(* ---------------------------------------------------------------------- *)

\* The store holds up to this many changeset records at a time.
MaxStore == 2

\* A run that finds changesets starts only while package.json was rewritten
\* fewer times than this.
MaxReleases == 1

VersionOptions == [dryRun : BOOLEAN, skipConfirm : BOOLEAN, ci : BOOLEAN]

\* package.json before the first run: missing or unreadable, a version, a
\* version field that does not parse.
InitialManifests ==
  { [exists |-> FALSE, version |-> <<>>],
    [exists |-> TRUE, version |-> <<"0", ".", "9", ".", "9">>],
    [exists |-> TRUE, version |-> <<"1", ".", "0">>] }

InitRelease ==
  /\ NoPublishing
  /\ NoVersioning
  /\ manifest \in InitialManifests
  /\ changelog \in { [exists |-> FALSE, lines |-> <<>>],
                     [exists |-> TRUE, lines |-> OldSection] }
  /\ added = <<>>
  /\ lookup = NoLookup
  /\ store = <<>>
  /\ versionRun = NoRun
  /\ bumps = 0
  /\ consumed = FALSE
  /\ changesetsDir \in {NoDir, init(NoDir)}
  /\ files = <<>>
  /\ call = NoCall
  /\ committed = NoRepository

\* ChangesetManager.createChangeset, between two runs of the version command:
\* a record with an id no file of the store has (the smallest free number
\* stands for the generated id); its first statement is init()
AddChangeset(type, summary) ==
  /\ versionRun.pc = "idle"
  /\ Len(store) < MaxStore
  /\ LET used == { store[i].id : i \in 1..Len(store) }
         id == CHOOSE n \in 1..(Len(store) + 1) : n \notin used
     IN store' = Append(store, [id |-> id, type |-> type, summary |-> summary])
  /\ consumed' = FALSE
  /\ changesetsDir' = init(changesetsDir)
  /\ UNCHANGED <<committed, storing, publishing, versioning, documenting, manifest, versionRun, bumps>>

\* The run ends: process.exit(code), or the function returns (code 0).
exit(run, code) == [run EXCEPT !.pc = "done", !.exitCode = code]

\* An empty list that is not noticed.
nothingToDo_Never(list) == FALSE

\* if (changesets.length === 0): nothing to process
nothingToDo(list) == Len(list) = 0

\* A dry run that is not noticed.
dryRunReturns_Never(options) == FALSE

\* if (options.dryRun): the preview was shown, return
dryRunReturns(options) == options.dryRun

\* versionCommand up to the confirmation: performPreChecks, getCurrentVersion,
\* getAllChangesets, calculateNextVersion, dry-run return, confirm prompt.
\* repo and clean are what git answers, confirmed what the user answers.
\* getAllChangesets starts with init(), whatever the options are.
StartVersion(options, repo, clean, confirmed) ==
  /\ versionRun.pc = "idle"
  /\ bumps < MaxReleases \/ store = <<>>
  /\ LET run == [NoRun EXCEPT !.dryRun = options.dryRun, !.ci = options.ci]
         info == calculateNextVersion(manifest.version, store)
     IN
       IF repo /\ ~options.ci /\ ~clean
         THEN /\ versionRun' = exit([run EXCEPT !.steps = <<Ran("preChecks", FALSE)>>], 1)
              /\ UNCHANGED <<versioning, changesetsDir>>
       ELSE IF ~manifest.exists
         THEN /\ versionRun' =
                   exit([run EXCEPT !.steps = <<Ran("preChecks", TRUE),
                                                Ran("getCurrentVersion", FALSE)>>], 1)
              /\ UNCHANGED <<versioning, changesetsDir>>
       ELSE IF nothingToDo(store)
         THEN /\ versionRun' =
                   exit([run EXCEPT !.steps = <<Ran("preChecks", TRUE),
                                                Ran("getCurrentVersion", TRUE)>>], 0)
              /\ currentVersion' = manifest.version
              /\ changesets' = store
              /\ versionInfo' = versionInfo
              /\ changesetsDir' = init(changesetsDir)
       ELSE
         /\ changesetsDir' = init(changesetsDir)
         /\ currentVersion' = manifest.version
         /\ changesets' = store
         /\ versionInfo' = info
         /\ LET steps == <<Ran("preChecks", TRUE), Ran("getCurrentVersion", TRUE),
                           Ran("calculateNextVersion", info.error = Null)>>
            IN versionRun' =
                 IF info.error # Null THEN exit([run EXCEPT !.steps = steps], 1)
                 ELSE IF dryRunReturns(options) THEN exit([run EXCEPT !.steps = steps], 0)
                 ELSE IF ~options.ci /\ ~options.skipConfirm /\ ~confirmed
                   THEN exit([run EXCEPT !.steps = steps], 0)
                 ELSE [run EXCEPT !.steps = steps, !.pc = "update"]
  /\ UNCHANGED <<committed, storing, publishing, documenting, manifest, store, bumps, consumed>>

\* 6. versionManager.updateVersion(versionInfo.next)
UpdateVersion ==
  /\ versionRun.pc = "update"
  /\ \E ok \in BOOLEAN :
       LET run == [versionRun EXCEPT !.steps = Append(@, Ran("updateVersion", ok))]
       IN IF ok
            THEN /\ manifest' = [manifest EXCEPT !.version = versionInfo.next]
                 /\ bumps' = bumps + 1
                 /\ versionRun' = [run EXCEPT !.pc = "changelog"]
            ELSE /\ UNCHANGED <<manifest, bumps>>
                 /\ versionRun' = exit(run, 1)
  /\ UNCHANGED <<committed, changesetsDir, storing, publishing, versioning, documenting, store, consumed>>

\* The changelog step whose failure is only logged.
UpdateChangelog_Continue ==
  /\ versionRun.pc = "changelog"
  /\ \E ok \in BOOLEAN :
       LET run == [versionRun EXCEPT !.steps = Append(@, Ran("addEntry", ok)),
                                     !.pc = "consume"]
       IN /\ versionRun' = run
          /\ IF ok
               THEN /\ changelog' = addEntry(versionInfo.next, changesets)
                    /\ added' = Append(added, versionInfo.next)
               ELSE UNCHANGED documenting
  /\ UNCHANGED <<committed, lookup, changesetsDir, storing, publishing, versioning, manifest, store, bumps, consumed>>

\* 7. changelogConfigManager.loadConfig and changelogManager.addEntry: either
\*    may throw, and then nothing is written.
UpdateChangelog ==
  /\ versionRun.pc = "changelog"
  /\ \E ok \in BOOLEAN :
       LET run == [versionRun EXCEPT !.steps = Append(@, Ran("addEntry", ok))]
       IN IF ok
            THEN /\ changelog' = addEntry(versionInfo.next, changesets)
                 /\ added' = Append(added, versionInfo.next)
                 /\ versionRun' = [run EXCEPT !.pc = "consume"]
            ELSE /\ UNCHANGED documenting
                 /\ versionRun' = exit(run, 1)
  /\ UNCHANGED <<committed, lookup, changesetsDir, storing, publishing, versioning, manifest, store, bumps, consumed>>

\* 8. changesetManager.consumeChangesets: the store is listed again and the
\*    listed files are unlinked one after the other; a failing unlink throws
\*    and leaves the files after it.
ConsumeChangesets ==
  /\ versionRun.pc = "consume"
  /\ \E n \in 0..Len(store) :
       LET unlinked == [i \in 1..n |-> Ran("unlink", TRUE)]
       IN IF n = Len(store)
            THEN /\ store' = <<>>
                 /\ versionRun' = [versionRun EXCEPT !.steps = @ \o unlinked,
                                                     !.pc = "commit"]
            ELSE /\ store' = SubSeq(store, n + 1, Len(store))
                 /\ versionRun' =
                      exit([versionRun EXCEPT
                              !.steps = @ \o unlinked \o <<Ran("unlink", FALSE)>>], 1)
  /\ UNCHANGED <<committed, changesetsDir, storing, publishing, versioning, documenting, manifest, bumps, consumed>>

\* gitManager.addFiles(['package.json', 'CHANGELOG.md'])
addFiles == {"manifest", "changelog"}

\* 9./10. the release commit in a git repository (git add, git commit, either
\*    may fail), none outside one; then the command returns.
CommitRelease(repo) ==
  /\ versionRun.pc = "commit"
  /\ \E ok \in BOOLEAN :
       IF repo
         THEN LET run == [versionRun EXCEPT !.steps = Append(@, Ran("git commit", ok))]
              IN /\ versionRun' = exit(run, IF ok THEN 0 ELSE 1)
                 /\ consumed' = (ok \/ consumed)
                 /\ committed' = IF ok /\ committed.repo THEN commit(addFiles)
                                 ELSE committed
         ELSE /\ versionRun' = exit(versionRun, 0)
              /\ consumed' = TRUE
              /\ UNCHANGED committed
  /\ UNCHANGED <<changesetsDir, storing, publishing, versioning, documenting, manifest, store, bumps>>

\* The developer commits everything that is not committed (git add -A, git
\* commit), between two runs of the version command.
CommitAll ==
  /\ versionRun.pc = "idle"
  /\ committed.repo
  /\ ~isWorkingDirectoryClean
  /\ committed' = working
  /\ UNCHANGED <<changesetsDir, storing, publishing, versioning, documenting, manifest, store,
                 versionRun, bumps, consumed>>

\* The process of the version command is gone; the next invocation starts anew.
EndVersionRun ==
  /\ versionRun.pc = "done"
  /\ versionRun' = NoRun
  /\ currentVersion' = <<>>
  /\ changesets' = <<>>
  /\ versionInfo' = NotCalled
  /\ UNCHANGED <<committed, changesetsDir, storing, publishing, documenting, manifest, store, bumps, consumed>>

NextRelease ==
  \/ \E type \in ChangeTypes, summary \in Summaries : AddChangeset(type, summary)
  \/ \E options \in VersionOptions, repo \in BOOLEAN, clean \in BOOLEAN,
        confirmed \in BOOLEAN : StartVersion(options, repo, clean, confirmed)
  \/ UpdateVersion
  \/ UpdateChangelog
  \/ ConsumeChangesets
  \/ \E repo \in BOOLEAN : CommitRelease(repo)
  \/ EndVersionRun

\* Changesets are added and the version command is run, again and again.
SpecRelease == InitRelease /\ [][NextRelease]_vars

\* A git repository whose last commit holds package.json, CHANGELOG.md and
\* .changesets as they are.
InitTree ==
  /\ NoPublishing
  /\ NoVersioning
  /\ manifest = [exists |-> TRUE, version |-> <<"0", ".", "9", ".", "9">>]
  /\ changelog \in { [exists |-> FALSE, lines |-> <<>>],
                     [exists |-> TRUE, lines |-> OldSection] }
  /\ added = <<>>
  /\ lookup = NoLookup
  /\ store = <<>>
  /\ versionRun = NoRun
  /\ bumps = 0
  /\ consumed = FALSE
  /\ changesetsDir \in {NoDir, init(NoDir)}
  /\ files = <<>>
  /\ call = NoCall
  /\ committed = working

NextTree ==
  \/ \E type \in ChangeTypes, summary \in Summaries : AddChangeset(type, summary)
  \/ \E options \in VersionOptions, confirmed \in BOOLEAN :
       StartVersion(options, committed.repo, isWorkingDirectoryClean, confirmed)
  \/ UpdateVersion
  \/ UpdateChangelog
  \/ ConsumeChangesets
  \/ CommitRelease(committed.repo)
  \/ CommitAll
  \/ EndVersionRun

\* The version command in a git repository whose commits are followed
SpecTree == InitTree /\ [][NextTree]_vars

(* ---------------------------------------------------------------------- *)
(* The changeset store                                                     *)
(* ---------------------------------------------------------------------- *)

\* The directory holds up to this many changeset files.
MaxFiles == 2

\* const maxAttempts = 50
maxAttempts == 50

\* Outcomes of generateId; the file of id x is x.json, and a file is named
\* here by its name without the .json ending.
Ids == {"happy-cats-dance", "brave-owls-sing", "calm-deer-bloom"}

LineBreaks == {"\n", "\r"}

\* String.prototype.trim: white space and line breaks are removed at both ends.
trim(text) ==
  LET blank == WhiteSpace \cup LineBreaks
      n == Len(text)
      leading == LeadingRun(text, blank)
      trailing == CHOOSE t \in 0..n :
                    /\ \A i \in (n - t + 1)..n : text[i] \in blank
                    /\ t < n => text[n - t] \notin blank
  IN IF leading = n THEN <<>> ELSE SubSeq(text, leading + 1, n - trailing)

\* Outcome of validateChangesetInput: Null when it returns, otherwise the
\* error it throws.
validateChangesetInput(type, summary) ==
  LET trimmedSummary == trim(summary)
  IN IF type \notin ChangeTypes THEN "InvalidType"
     ELSE IF trimmedSummary = <<>> THEN "EmptySummary"
     ELSE IF Len(trimmedSummary) < 5 THEN "SummaryTooShort"
     ELSE IF Len(trimmedSummary) > 200 THEN "SummaryTooLong"
     ELSE IF \E i \in 1..Len(trimmedSummary) : trimmedSummary[i] \in LineBreaks
       THEN "SummaryHasLineBreak"
     ELSE Null

\* new Date(text).getTime(): the instant a createdAt text denotes, NaN when it
\* denotes none.
getTime(text) ==
  CASE text = "2024-05-01T00:00:00.000Z" -> [nan |-> FALSE, ms |-> 1]
    [] text = "2024-05-01" -> [nan |-> FALSE, ms |-> 1]
    [] text = "2024-05-02T00:00:00.000Z" -> [nan |-> FALSE, ms |-> 2]
    [] OTHER -> [nan |-> TRUE, ms |-> 0]

\* What new Date().toISOString() can give.
Now == {"2024-05-02T00:00:00.000Z"}

\* readJsonFile: Null when it returns the parsed content, otherwise the error
\* of readFile or of JSON.parse. A file is [name, kind, object]: kind says
\* whether it can be read ("unreadable"), parsed ("text") and whether the
\* parsed value is a non-null object ("value", "object"); object is that
\* object, a function from its field names.
readJsonFile(file) ==
  CASE file.kind = "unreadable" -> "ReadError"
    [] file.kind = "text" -> "SyntaxError"
    [] OTHER -> Null

requiredFields == {"id", "type", "summary", "createdAt"}

\* Outcome of validateChangesetStructure(changeset, filename) for the parsed
\* content of a file: Null when it returns, otherwise the error it throws.
\* Field values are texts, so the typeof checks have nothing to reject.
validateChangesetStructure_NoNameCheck(file) ==
  LET changeset == file.object
  IN IF file.kind # "object" THEN "InvalidJsonStructure"
     ELSE IF \E field \in requiredFields : field \notin DOMAIN changeset
       THEN "MissingField"
     ELSE IF changeset.id = "" THEN "InvalidId"
     ELSE IF changeset.type \notin ChangeTypes THEN "InvalidType"
     ELSE IF trim(changeset.summary) = <<>> THEN "InvalidSummary"
     ELSE IF getTime(changeset.createdAt).nan THEN "InvalidCreatedAt"
     ELSE Null

validateChangesetStructure(file) ==
  LET changeset == file.object
  IN IF file.kind # "object" THEN "InvalidJsonStructure"
     ELSE IF \E field \in requiredFields : field \notin DOMAIN changeset
       THEN "MissingField"
     ELSE IF changeset.id = "" THEN "InvalidId"
     ELSE IF changeset.type \notin ChangeTypes THEN "InvalidType"
     ELSE IF trim(changeset.summary) = <<>> THEN "InvalidSummary"
     ELSE IF getTime(changeset.createdAt).nan THEN "InvalidCreatedAt"
     ELSE IF file.name # changeset.id THEN "FilenameMismatch"
     ELSE Null

\* Array.prototype.sort with the comparator of getAllChangesets: ascending by
\* the instant of createdAt, elements that compare equal keep their order.
RECURSIVE sort(_)
sort_None(list) == list

sort(list) ==
  IF list = <<>> THEN <<>>
  ELSE LET n == Len(list)
           x == list[n]
           before == sort(SubSeq(list, 1, n - 1))
           k == Cardinality({ i \in 1..(n - 1) :
                  getTime(before[i].createdAt).ms <= getTime(x.createdAt).ms })
       IN SubSeq(before, 1, k) \o <<x>> \o SubSeq(before, k + 1, n - 1)

\* fs.readdir(this.changesetsDir): config.json, when there is one, and the
\* other files
readdir(dir, listing) ==
  IF dir.config.kind = "absent" THEN listing ELSE <<dir.config>> \o listing

\* A listing that does not leave out config.json.
getAllChangesets_NoFilter(listing) ==
  LET ok(file) == readJsonFile(file) = Null /\ validateChangesetStructure(file) = Null
      kept == SelectSeq(listing, ok)
  IN sort([i \in 1..Len(kept) |-> kept[i].object])

\* getAllChangesets over the files readdir lists: config.json is left out, a
\* file that cannot be read, parsed or validated is skipped with a warning,
\* the others are sorted.
getAllChangesets(listing) ==
  LET changesetFiles == SelectSeq(listing, LAMBDA file : file.name # "config")
      ok(file) == readJsonFile(file) = Null /\ validateChangesetStructure(file) = Null
      kept == SelectSeq(changesetFiles, ok)
  IN sort([i \in 1..Len(kept) |-> kept[i].object])

\* generateUniqueId with draws[1], draws[2], ... the successive outcomes of
\* generateId: [error, id, checked (number of candidates fs.access was asked
\* about), free (the last of them had no file)]
RECURSIVE uniqueIdFrom(_, _, _)
uniqueIdFrom(names, draws, attempts) ==
  LET id == draws[attempts + 1]
  IN IF attempts < maxAttempts
       THEN IF id \in names
              THEN uniqueIdFrom(names, draws, attempts + 1)
              ELSE [error |-> Null, id |-> id, checked |-> attempts + 1, free |-> TRUE]
       ELSE [error |-> "IdGenerationExhausted", id |-> id, checked |-> attempts,
             free |-> FALSE]

generateUniqueId_NoCheck(names, draws) ==
  [error |-> Null, id |-> draws[1], checked |-> 0, free |-> FALSE]

generateUniqueId_NoCeiling(names, draws) ==
  [uniqueIdFrom(names, draws, 0) EXCEPT !.error = Null]

generateUniqueId(names, draws) == uniqueIdFrom(names, draws, 0)

\* The names of the files of a listing
namesOf(listing) == { listing[i].name : i \in 1..Len(listing) }

\* fs.writeFile(path of name, JSON of object): an existing file is
\* overwritten where it is, a new one appears at place pos of the listing.
writeFile(listing, name, object, pos) ==
  LET file == [name |-> name, kind |-> "object", object |-> object]
  IN IF name \in namesOf(listing)
       THEN [i \in 1..Len(listing) |->
               IF listing[i].name = name THEN file ELSE listing[i]]
       ELSE SubSeq(listing, 1, pos - 1) \o <<file>> \o SubSeq(listing, pos, Len(listing))

\* fs.unlink of the files of the given names
unlink(listing, names) == SelectSeq(listing, LAMBDA file : file.name \notin names)

\* fs.unlink as config.json sees it: it is gone when its name is among the
\* unlinked
unlinkIn(dir, names) ==
  IF "config" \in names THEN [dir EXCEPT !.config = NoDir.config] ELSE dir


\* Summaries as sequences of characters
Repeat(c, n) == [i \in 1..n |-> c]

\* Inputs of createChangeset: each type with the summary "fixes" with blanks
\* around it; a type that is none of the three; summaries that are "fix"
\* followed by two blanks, two lines, nothing, 201 characters.
CreateInputs ==
  LET fixes == <<" ", "f", "i", "x", "e", "s", " ">>
  IN [type : ChangeTypes, summary : {fixes}]
     \cup
     { [type |-> "feature", summary |-> fixes],
       [type |-> "patch", summary |-> <<"f", "i", "x", " ", " ">>],
       [type |-> "patch", summary |-> <<"f", "i", "x", "\n", "u", "p">>],
       [type |-> "patch", summary |-> <<>>],
       [type |-> "patch", summary |-> Repeat("x", 201)] }

\* Sequences of generateId outcomes: always the same id, or one id as often
\* as the loop takes all but one of its turns and then another id.
Draws ==
  { [i \in 1..(maxAttempts + 1) |-> IF i <= k THEN a ELSE b] :
      a \in Ids, b \in Ids, k \in {0, maxAttempts - 1} }

\* ChangesetManager.createChangeset(type, summary): init, validateChangesetInput,
\* generateUniqueId, writeJsonFile. at is the clock's text, draws what
\* generateId gives, pos the place of the new file in the directory's listing.
CreateChangeset(type, summary, at) ==
  LET invalid == validateChangesetInput(type, summary)
      made == [op |-> "createChangeset", error |-> Null, returned |-> <<>>,
               input |-> [type |-> type, summary |-> summary],
               id |-> Null, checked |-> 0, free |-> FALSE]
  IN /\ changesetsDir' = init(changesetsDir)
     /\ IF invalid # Null
          THEN /\ call' = [made EXCEPT !.error = invalid]
               /\ files' = files
          ELSE \E draws \in Draws, pos \in 1..(Len(files) + 1) :
               \E unique \in {generateUniqueId(namesOf(files), draws)} :
                 LET changeset == [id |-> unique.id, type |-> type,
                                   summary |-> trim(summary), createdAt |-> at]
                 IN IF unique.error # Null
                      THEN /\ call' = [made EXCEPT !.error = unique.error,
                                                   !.id = unique.id,
                                                   !.checked = unique.checked,
                                                   !.free = unique.free]
                           /\ files' = files
                      ELSE /\ Len(files) < MaxFiles \/ unique.id \in namesOf(files)
                           /\ call' = [made EXCEPT !.returned = <<changeset>>,
                                                   !.id = unique.id,
                                                   !.checked = unique.checked,
                                                   !.free = unique.free]
                           /\ files' = writeFile(files, unique.id, changeset, pos)
     /\ UNCHANGED <<publishing, versioning, documenting, releasing>>

\* A listing that leaves records of the same instant in any order.
GetAllChangesets_AnyOrder ==
  /\ changesetsDir' = init(changesetsDir)
  /\ \E listing \in [1..Len(files) -> { files[i] : i \in 1..Len(files) }] :
       /\ namesOf(listing) = namesOf(files)
       /\ call' = [NoCall EXCEPT !.op = "getAllChangesets",
                                 !.returned = getAllChangesets(
                                                readdir(init(changesetsDir), listing))]
  /\ UNCHANGED <<files, publishing, versioning, documenting, releasing>>

\* ChangesetManager.getAllChangesets: init, then the files of the directory
\* (which can be listed) are read, validated and sorted.
GetAllChangesets ==
  /\ changesetsDir' = init(changesetsDir)
  /\ call' = [NoCall EXCEPT !.op = "getAllChangesets",
                            !.returned = getAllChangesets(
                                           readdir(init(changesetsDir), files))]
  /\ UNCHANGED <<files, publishing, versioning, documenting, releasing>>

\* A consume that unlinks the first listed record only.
ConsumeStore_FirstOnly ==
  \E listed \in {getAllChangesets(readdir(init(changesetsDir), files))} :
     /\ changesetsDir' = init(changesetsDir)
     /\ files' = IF listed = <<>> THEN files
                 ELSE unlink(files, {listed[1].id})
     /\ call' = [NoCall EXCEPT !.op = "consumeChangesets", !.returned = listed]
     /\ UNCHANGED <<publishing, versioning, documenting, releasing>>

\* ChangesetManager.consumeChangesets: the listed records are unlinked one
\* after the other; a failing unlink throws and leaves the files after it.
ConsumeStore ==
  \E listed \in {getAllChangesets(readdir(init(changesetsDir), files))} :
     \E n \in 0..Len(listed) :
          /\ changesetsDir' = unlinkIn(init(changesetsDir), { listed[i].id : i \in 1..n })
          /\ files' = unlink(files, { listed[i].id : i \in 1..n })
          /\ call' = IF n = Len(listed)
                       THEN [NoCall EXCEPT !.op = "consumeChangesets",
                                           !.returned = listed]
                       ELSE [NoCall EXCEPT !.op = "consumeChangesets",
                                           !.error = "UnlinkError"]
     /\ UNCHANGED <<publishing, versioning, documenting, releasing>>

\* The validate function of the summary prompt of editCommand: TRUE when the
\* answer is accepted; the prompt asks again otherwise.
editValidate(input) ==
  LET trimmed == trim(input)
  IN ~(Len(trimmed) = 0 \/ Len(trimmed) < 5 \/ Len(trimmed) > 200)

\* What is typed at the summary prompt of editCommand; nothing typed takes the
\* prompt's default, the stored summary.
EditInputs ==
  { <<>>,
    <<"f", "i", "x", "e", "d", " ">>,
    <<"f", "i", "x">>,
    Repeat("x", 201) }

\* editCommand: the records are listed, the target is found, the new type and
\* the new summary are asked, and after the confirmation the record's file is
\* rewritten. A rejected answer is asked again, so the flow goes on with an
\* accepted one only.
EditChangeset(targetId) ==
  \E listed \in {getAllChangesets(readdir(init(changesetsDir), files))} :
  LET found == { i \in 1..Len(listed) : listed[i].id = targetId }
      asked == [NoCall EXCEPT !.op = "editCommand", !.id = targetId]
  IN /\ IF found = {}
          THEN /\ call' = asked
               /\ files' = files
               /\ changesetsDir' = init(changesetsDir)
          ELSE \E changeset \in { listed[i] : i \in found },
                  newType \in ChangeTypes, input \in EditInputs, confirm \in BOOLEAN :
                 LET newSummary == IF input = <<>> THEN changeset.summary ELSE input
                     updatedChangeset == [changeset EXCEPT !.type = newType,
                                                           !.summary = trim(newSummary)]
                 IN /\ editValidate(newSummary)
                    /\ IF confirm
                         THEN /\ call' = [asked EXCEPT !.returned = <<updatedChangeset>>]
                              /\ files' = IF changeset.id = "config" THEN files
                                          ELSE writeFile(files, changeset.id,
                                                         updatedChangeset, 1)
                              /\ changesetsDir' =
                                   IF changeset.id = "config"
                                     THEN [init(changesetsDir) EXCEPT
                                             !.config.kind = "object",
                                             !.config.object = updatedChangeset]
                                   ELSE init(changesetsDir)
                         ELSE /\ call' = asked
                              /\ files' = files
                              /\ changesetsDir' = init(changesetsDir)
     /\ UNCHANGED <<publishing, versioning, documenting, releasing>>

\* deleteCommand: the records are listed; with --all every listed record's
\* file is unlinked after the confirmation, otherwise the target is found and
\* its file unlinked after the confirmation. A failing unlink ends the command
\* and leaves the files after it.
DeleteCommand(all, targetId, confirm) ==
  \E listed \in {getAllChangesets(readdir(init(changesetsDir), files))} :
  LET asked == [NoCall EXCEPT !.op = "deleteCommand", !.id = targetId]
      chosen == IF all THEN listed
                ELSE SelectSeq(listed, LAMBDA changeset : changeset.id = targetId)
  IN /\ IF listed = <<>> \/ chosen = <<>> \/ ~confirm
          THEN /\ call' = asked
               /\ files' = files
               /\ changesetsDir' = init(changesetsDir)
          ELSE \E n \in 0..(IF all THEN Len(chosen) ELSE 1) :
                 LET names == { chosen[i].id : i \in 1..n }
                 IN /\ call' = IF n = 0 THEN [asked EXCEPT !.error = "UnlinkError"]
                               ELSE [asked EXCEPT !.returned = SubSeq(chosen, 1, n)]
                    /\ files' = unlink(files, names)
                    /\ changesetsDir' = unlinkIn(init(changesetsDir), names)
     /\ UNCHANGED <<publishing, versioning, documenting, releasing>>

\* A changeset file that holds a record
recordFile(name, id, type, summary, createdAt) ==
  [name |-> name, kind |-> "object",
   object |-> [id |-> id, type |-> type, summary |-> summary, createdAt |-> createdAt]]

\* A changeset file that holds no record: it cannot be read, is not JSON, or
\* is JSON but no object (null)
brokenFile(name, kind) == [name |-> name, kind |-> kind, object |-> <<>>]

\* Files a directory can hold before the first call: records written by
\* createChangeset or by hand, and files no record can be read from.
InitialFiles ==
  LET fixes == <<"f", "i", "x", "e", "s">>
      lines == <<"f", "i", "x", "\n", "u", "p">>
  IN { recordFile("happy-cats-dance", "happy-cats-dance", "patch", fixes,
                  "2024-05-02T00:00:00.000Z"),
       recordFile("happy-cats-dance", "happy-cats-dance", "minor", lines,
                  "2024-05-01T00:00:00.000Z"),
       recordFile("happy-cats-dance", "brave-owls-sing", "patch", fixes,
                  "2024-05-01T00:00:00.000Z"),
       brokenFile("happy-cats-dance", "unreadable"),
       recordFile("brave-owls-sing", "brave-owls-sing", "major", fixes, "2024-05-01"),
       recordFile("brave-owls-sing", "brave-owls-sing", "patch", fixes, "yesterday"),
       [name |-> "brave-owls-sing", kind |-> "object",
        object |-> [id |-> "brave-owls-sing", type |-> "patch",
                    createdAt |-> "2024-05-01T00:00:00.000Z"]],
       brokenFile("brave-owls-sing", "text"),
       recordFile("calm-deer-bloom", "calm-deer-bloom", "patch", fixes,
                  "2024-05-01T00:00:00.000Z"),
       recordFile("calm-deer-bloom", "calm-deer-bloom", "feature", fixes,
                  "2024-05-01T00:00:00.000Z"),
       recordFile("calm-deer-bloom", "calm-deer-bloom", "patch", <<" ">>,
                  "2024-05-01T00:00:00.000Z"),
       brokenFile("calm-deer-bloom", "value") }

\* Directory listings before the first call: up to MaxFiles files of different
\* names, in any order.
InitialListings ==
  { listing \in UNION { [1..n -> InitialFiles] : n \in 0..MaxFiles } :
      \A i, j \in 1..Len(listing) : i # j => listing[i].name # listing[j].name }

\* A ChangesetManager over a directory that was never initialised, or over an
\* initialised one with its files.
InitStore ==
  /\ NoPublishing
  /\ NoVersioning
  /\ NoDocumenting
  /\ NoReleasing
  /\ \/ changesetsDir = NoDir /\ files = <<>>
     \/ changesetsDir = init(NoDir) /\ files \in InitialListings
  /\ call = NoCall

NextStore ==
  \/ GetAllChangesets
  \/ ConsumeStore
  \/ \E targetId \in Ids : EditChangeset(targetId)

\* The store is listed, consumed and edited.
SpecStore == InitStore /\ [][NextStore]_vars

\* A ChangesetManager over a directory that was never initialised, or over an
\* initialised one that holds no file or one record.
InitCreate ==
  /\ NoPublishing
  /\ NoVersioning
  /\ NoDocumenting
  /\ NoReleasing
  /\ \/ changesetsDir = NoDir /\ files = <<>>
     \/ /\ changesetsDir = init(NoDir)
        /\ files \in { <<>>, <<recordFile("happy-cats-dance", "happy-cats-dance", "patch",
                                          <<"f", "i", "x", "e", "s">>,
                                          "2024-05-01T00:00:00.000Z")>> }
  /\ call = NoCall

NextCreate ==
  \E input \in CreateInputs, at \in Now : CreateChangeset(input.type, input.summary, at)

\* Changesets are created one after the other.
SpecCreate == InitCreate /\ [][NextCreate]_vars

\* A ChangesetManager over a directory that was never initialised, or over one
\* whose config.json is the one init writes or one that has the fields of a
\* record; next to it a record, and a file of another name whose record says
\* its id is config.
InitConfig ==
  LET fixes == <<"f", "i", "x", "e", "s">>
      written == init(NoDir)
      present == { recordFile("happy-cats-dance", "happy-cats-dance", "patch", fixes,
                              "2024-05-01T00:00:00.000Z"),
                   recordFile("brave-owls-sing", "config", "minor", fixes,
                              "2024-05-01T00:00:00.000Z") }
  IN /\ NoPublishing
     /\ NoVersioning
     /\ NoDocumenting
     /\ NoReleasing
     /\ \/ changesetsDir = NoDir /\ files = <<>>
        \/ /\ changesetsDir \in
                { written,
                  [written EXCEPT !.config = recordFile("config", "config", "patch", fixes,
                                                        "2024-05-01T00:00:00.000Z")] }
           /\ files \in { listing \in UNION { [1..n -> present] : n \in 0..MaxFiles } :
                            \A i, j \in 1..Len(listing) :
                               i # j => listing[i].name # listing[j].name }
     /\ call = NoCall

NextConfig ==
  \/ \E at \in Now : CreateChangeset("minor", <<"f", "i", "x", "e", "s">>, at)
  \/ GetAllChangesets
  \/ ConsumeStore
  \/ \E targetId \in Ids \cup {"config"} : EditChangeset(targetId)
  \/ \E all \in BOOLEAN, targetId \in Ids \cup {"config"}, confirm \in BOOLEAN :
       DeleteCommand(all, targetId, confirm)

\* Records are created, listed, consumed, edited and deleted next to
\* config.json.
SpecConfig == InitConfig /\ [][NextConfig]_vars

\* A project ready for a publish run: package.json at 1.0.0, a CHANGELOG.md
\* with a section, one changeset record in .changesets, in a clean
\* repository with or without the tag of the version.
InitInputs ==
  LET fixes == <<"f", "i", "x", "e", "s">> IN
  /\ NoVersioning
  /\ changelog = [exists |-> TRUE, lines |-> OldSection]
  /\ added = <<>>
  /\ lookup = NoLookup
  /\ manifest = [exists |-> TRUE, version |-> <<"1", ".", "0", ".", "0">>]
  /\ store = <<[id |-> 1, type |-> "patch", summary |-> "fix crash"]>>
  /\ versionRun = NoRun
  /\ bumps = 0
  /\ consumed = FALSE
  /\ committed = NoRepository
  /\ changesetsDir = init(NoDir)
  /\ files = <<recordFile("happy-cats-dance", "happy-cats-dance", "patch", fixes,
                          "2024-05-01T00:00:00.000Z")>>
  /\ call = NoCall
  /\ git \in [repo: {TRUE}, clean: {TRUE}, branch: {"main"}, tags: InitialTagLists]
  /\ packageJson \in [exists: {TRUE}, version: Versions, build: BOOLEAN, test: {TRUE}]
  /\ registry = [v \in Versions |-> 0]
  /\ pc = "idle"
  /\ viaCommand = FALSE
  /\ ci = FALSE
  /\ canPublishCheck = NoCheck
  /\ config = NoConfig
  /\ result = EmptyResult
  /\ caught = Null
  /\ thrown = Null
  /\ exitCode = Null
  /\ trace = <<>>

\* Publish runs in a project that has its release inputs
SpecInputs == InitInputs /\ [][Next]_vars

(* ---------------------------------------------------------------------- *)
(* Properties                                                              *)
(* ---------------------------------------------------------------------- *)

Executed(cmd) == \E i \in 1..Len(trace) : trace[i].cmd = cmd
Succeeded(cmd) == \E i \in 1..Len(trace) : trace[i].cmd = cmd /\ trace[i].ok
Failed(cmd) == \E i \in 1..Len(trace) : trace[i].cmd = cmd /\ ~trace[i].ok

\* publish() has returned or thrown.
PublishEnded == pc \in {"returned", "threw"}

\* The registry publish command of this run failed.
NpmFailed == Failed("npm publish") \/ Failed("npm publish --dry-run")

\* createAndPushTag succeeded and publishToNpm then failed.
TagThenNpmFailure ==
  /\ ~config.skipGitPush
  /\ ~config.skipNpmPublish
  /\ Succeeded("git tag")
  /\ Succeeded("git push")
  /\ NpmFailed

C2_NoTagWithoutPublish ==
  (PublishEnded /\ Succeeded("git tag") /\ tagExists(TagOf(result.version))) =>
    (result.npmPublished \/ config.skipNpmPublish)

\* C3: a dry-run of the publish command creates no tag, pushes nothing,
\* publishes nothing to the registry and creates no remote release.
C3_DryRunMutatesNothing ==
  (viaCommand /\ config.dryRun) =>
    /\ ~Succeeded("git tag")
    /\ ~Succeeded("git push")
    /\ ~Succeeded("npm publish")
    /\ ~Succeeded("gh release create")

\* C4: once the publish command has published version V to the registry, a
\* later invocation of the command with package.json still at V is refused
\* by the gate and runs no pipeline stage.
C4_RefusedAfterPublish ==
  [][(/\ pc = "idle"
      /\ viaCommand'
      /\ versionReadable
      /\ registry[packageJson.version] >= 1)
       => (~canPublishCheck'.canPublish /\ pc' = "done")]_vars

\* Stage of an external action: 1 Validate, 2 Build, 3 Test, 4 TagAndPush,
\* 5 RegistryPublish, 6 RemoteRelease; 0 for the rollback's commands.
StageOf(cmd) ==
  CASE cmd = "validate" -> 1
    [] cmd = "npm run build" -> 2
    [] cmd = "npm test" -> 3
    [] cmd \in {"git tag", "git push"} -> 4
    [] cmd \in {"npm publish", "npm publish --dry-run"} -> 5
    [] cmd \in {"gh --version", "gh auth status", "gh release create"} -> 6
    [] OTHER -> 0

\* C5: the external actions of a run are executed in stage order, no stage
\* twice, and after a failed action of Validate, Build, Test, TagAndPush or
\* RegistryPublish no action of a later stage is executed.
C5_StageOrder ==
  \A i, j \in 1..Len(trace) :
    (i < j /\ StageOf(trace[i].cmd) > 0 /\ StageOf(trace[j].cmd) > 0) =>
      /\ StageOf(trace[i].cmd) <= StageOf(trace[j].cmd)
      /\ trace[i].cmd # trace[j].cmd
      /\ trace[i].ok \/ StageOf(trace[i].cmd) = 6

\* C5 witness: a run in which all six stages executed their action.
C5_Witness ==
  /\ pc = "returned"
  /\ Succeeded("validate")
  /\ Succeeded("npm run build")
  /\ Succeeded("npm test")
  /\ Succeeded("git push")
  /\ Succeeded("npm publish")
  /\ Executed("gh release create")

\* C6: Validate fails if and only if a hard check fails: not a git
\* repository, working tree not clean, or package.json missing.
C6_ValidateFailsIffHardCheck ==
  Executed("validate") =>
    (Failed("validate") <=> (~git.repo \/ ~git.clean \/ ~packageJson.exists))

\* RemoteRelease was attempted in this run and created no release.
ReleaseFailed ==
  /\ ~config.skipGitHubRelease
  /\ ~config.dryRun
  /\ Executed("gh --version")
  /\ ~Succeeded("gh release create")

\* C7: when RemoteRelease fails after the earlier stages succeeded, publish
\* returns success = true, no tag is rolled back (the tag of the run still
\* exists) and the registry publish stays.
C7_ReleaseFailureNotFatal ==
  ReleaseFailed =>
    /\ pc \in {"returned", "done"}
    /\ result.success
    /\ thrown = Null
    /\ ~Executed("git tag -d")
    /\ Succeeded("git tag") => tagExists(TagOf(result.version))
    /\ Succeeded("npm publish") => registry[result.version] >= 1

\* C7 witness: a run with tag and registry publish done whose release failed.
C7_Witness ==
  /\ ReleaseFailed
  /\ Failed("gh release create")
  /\ Succeeded("git push")
  /\ Succeeded("npm publish")
  /\ result.success

\* C8: a stage whose skip flag is set never executes its external action,
\* and a run that returns has executed every stage that is not skipped (a
\* Build or Test stage without its script has nothing to execute, and dryRun
\* leaves RemoteRelease out).
C8_SkipFlags ==
  /\ config.skipBuild => ~Executed("npm run build")
  /\ config.skipTest => ~Executed("npm test")
  /\ config.skipGitPush => ~Executed("git tag") /\ ~Executed("git push")
  /\ config.skipNpmPublish =>
       ~Executed("npm publish") /\ ~Executed("npm publish --dry-run")
  /\ config.skipGitHubRelease =>
       /\ ~Executed("gh release create")
       /\ ~Executed("gh --version")
       /\ ~Executed("gh auth status")
  /\ pc = "returned" =>
       /\ (~config.skipBuild /\ checkBuildScript) => Executed("npm run build")
       /\ (~config.skipTest /\ checkTestScript) => Executed("npm test")
       /\ ~config.skipGitPush => Executed("git tag") /\ Executed("git push")
       /\ ~config.skipNpmPublish =>
            Executed("npm publish") \/ Executed("npm publish --dry-run")
       /\ (~config.skipGitHubRelease /\ ~config.dryRun) => Executed("gh --version")

\* C8 witness: a run that skipped Build, TagAndPush and RemoteRelease and
\* still ran Test and RegistryPublish.
C8_Witness ==
  /\ pc = "returned"
  /\ config.skipBuild
  /\ config.skipGitPush
  /\ config.skipGitHubRelease
  /\ ~config.skipTest
  /\ Succeeded("npm test")
  /\ Succeeded("npm publish")
  /\ checkBuildScript

\* C9: when the rollback is triggered, the tag deletion is attempted before
\* the error leaves publish, and the error that leaves is the registry
\* publish error, also when the deletion fails.
C9_RollbackThenOriginalError ==
  (caught # Null /\ rollbackNeeded) =>
    /\ caught = "NpmPublishFailed"
    /\ pc # "catch" => Executed("git tag -d")
    /\ thrown # Null => thrown = "NpmPublishFailed" /\ Executed("git tag -d")
    /\ pc \in {"threw", "done"} => thrown = "NpmPublishFailed"

\* C9 witness: the tag deletion failed and the registry error was thrown.
C9_Witness ==
  /\ pc = "threw"
  /\ Failed("git tag -d")
  /\ thrown = "NpmPublishFailed"

\* The command has asked the gate and nothing has changed the repository since.
GateJustAsked ==
  /\ viaCommand
  /\ pc \in {"done", "validate"}
  /\ trace = <<>>

\* C10: canPublish refuses, with a reason, exactly when the version cannot
\* be read or the latest tag is 'v' + version; with any other latest tag and
\* with no tag at all it allows.
C10_CanPublish ==
  GateJustAsked =>
    LET unreadable == ~packageJson.exists \/ packageJson.version = NoVersion
        n == Len(git.tags)
        released == n > 0 /\ git.tags[n] = "v" \o packageJson.version
    IN /\ canPublishCheck.canPublish <=> ~(unreadable \/ released)
       /\ ~canPublishCheck.canPublish => canPublishCheck.reason # Null
       /\ ~canPublishCheck.canPublish => pc = "done" /\ exitCode = (IF ci THEN 0 ELSE 1)

\* C10 witness: allowed although a tag for the same version number exists
\* without the 'v' prefix.
C10_Witness ==
  /\ GateJustAsked
  /\ canPublishCheck.canPublish
  /\ git.tags = <<"1.0.0">>
  /\ packageJson.version = "1.0.0"

(* ---------------------------------------------------------------------- *)
(* Properties of the version calculation                                   *)
(* ---------------------------------------------------------------------- *)

\* calculateNextVersion has been called / has returned a VersionInfo.
Called == versionInfo # NotCalled
Returned == versionInfo.error = Null

\* Exactly three dot-separated components, each a non-empty run of digits.
ThreeNumbers(text) ==
  /\ Len(split(text)) = 3
  /\ \A i \in 1..3 :
       /\ split(text)[i] # <<>>
       /\ \A k \in 1..Len(split(text)[i]) : IsDigit(split(text)[i][k])

\* A valid version: three numbers, possibly after a 'v'.
ValidVersion(text) ==
  \/ ThreeNumbers(text)
  \/ text # <<>> /\ Head(text) = "v" /\ ThreeNumbers(Tail(text))

\* The i-th number of a valid version
PartNumber(text, i) ==
  NumberOf(split(IF Head(text) = "v" THEN Tail(text) ELSE text)[i])

\* The text of the version major.minor.patch
VersionText(major, minor, patch) ==
  numberToString(major) \o <<".">> \o numberToString(minor) \o <<".">>
    \o numberToString(patch)

Has(type) == \E i \in 1..Len(changesets) : changesets[i].type = type

\* C11: for a valid current version and a changeset list with at least one
\* major changeset, calculateNextVersion returns next = (major + 1).0.0,
\* whatever minor and patch changesets the list has besides.
C11_MajorBump ==
  (Called /\ ValidVersion(currentVersion) /\ Has("major")) =>
    /\ Returned
    /\ versionInfo.next = VersionText(PartNumber(currentVersion, 1) + 1, 0, 0)

\* C11 witness: 9.0.9 with a major, a minor and a patch changeset gives 10.0.0.
C11_Witness ==
  /\ Returned
  /\ currentVersion = <<"9", ".", "0", ".", "9">>
  /\ Has("major") /\ Has("minor") /\ Has("patch")
  /\ versionInfo.next = <<"1", "0", ".", "0", ".", "0">>

\* C12: for a valid current version and a changeset list with no major and
\* at least one minor changeset, next = major.(minor + 1).0.
C12_MinorBump ==
  (Called /\ ValidVersion(currentVersion) /\ ~Has("major") /\ Has("minor")) =>
    /\ Returned
    /\ versionInfo.next =
         VersionText(PartNumber(currentVersion, 1),
                     PartNumber(currentVersion, 2) + 1, 0)

\* C12 witness: 0.9.9 with a minor and a patch changeset gives 0.10.0.
C12_Witness ==
  /\ Returned
  /\ currentVersion = <<"0", ".", "9", ".", "9">>
  /\ ~Has("major") /\ Has("minor") /\ Has("patch")
  /\ versionInfo.next = <<"0", ".", "1", "0", ".", "0">>

\* C13: for a valid current version and a non-empty changeset list of patch
\* changesets only, next has major and minor unchanged and patch + 1.
C13_PatchBump ==
  (Called /\ ValidVersion(currentVersion) /\ changesets # <<>>
     /\ ~Has("major") /\ ~Has("minor")) =>
    /\ Returned
    /\ versionInfo.next =
         VersionText(PartNumber(currentVersion, 1),
                     PartNumber(currentVersion, 2),
                     PartNumber(currentVersion, 3) + 1)

\* C13 witness: v0.9.9 with the largest number of patch changesets gives 0.9.10.
C13_Witness ==
  /\ Returned
  /\ currentVersion = <<"v", "0", ".", "9", ".", "9">>
  /\ Len(changesets) = MaxChangesets
  /\ ~Has("major") /\ ~Has("minor")
  /\ versionInfo.next = <<"0", ".", "9", ".", "1", "0">>

\* C14: for a valid current version and an empty changeset list, next is the
\* current version, hasChanges is false and the three counts are zero.
C14_NoChangesets ==
  (Called /\ ValidVersion(currentVersion) /\ changesets = <<>>) =>
    /\ Returned
    /\ versionInfo.current = currentVersion
    /\ versionInfo.next = currentVersion
    /\ versionInfo.hasChanges = FALSE
    /\ \A t \in ChangeTypes : versionInfo.changesByType[t] = 0

\* C14 witness: v0.9.0 with no changeset stays v0.9.0.
C14_Witness ==
  /\ Returned
  /\ changesets = <<>>
  /\ currentVersion = <<"v", "0", ".", "9", ".", "0">>
  /\ versionInfo.next = currentVersion

\* C15: for a valid current version and a list of valid changesets, next
\* equals current if and only if the list is empty, and for a non-empty list
\* next is strictly greater than current in the order of compareVersions.
C15_NextGreaterIffChanges ==
  (Called /\ ValidVersion(currentVersion)) =>
    /\ Returned
    /\ (versionInfo.next = versionInfo.current) <=> (changesets = <<>>)
    /\ changesets # <<>> =>
         compareVersions(versionInfo.next, versionInfo.current) > 0

\* C15 witness: a patch-only bump of 9.9.9, which differs from the current
\* version in the last number only.
C15_Witness ==
  /\ Returned
  /\ currentVersion = <<"9", ".", "9", ".", "9">>
  /\ changesets = <<[type |-> "patch"]>>
  /\ versionInfo.next = <<"9", ".", "9", ".", "1", "0">>

\* C16: calculateNextVersion and isValidVersion reject every version text
\* that is not exactly three dot-separated non-negative integers (a leading
\* 'v' is let through here), for every changeset list.
C16_MalformedRejected ==
  (Called /\ ~ValidVersion(currentVersion)) =>
    /\ ~Returned
    /\ ~isValidVersion(currentVersion)

(* ---------------------------------------------------------------------- *)
(* Properties of the changelog                                             *)
(* ---------------------------------------------------------------------- *)

\* The version section headings of a document, top to bottom
Headings(lines) == SelectSeq(lines, LAMBDA line : startsWith(line, "## v"))

\* C17: after any sequence of addEntry calls the version sections are in
\* reverse insertion order: the topmost headings of the document are those
\* of the added versions, the one added last first, and whatever sections
\* were there before come after them.
C17_NewestFirst ==
  /\ Len(Headings(changelog.lines)) >= Len(added)
  /\ \A k \in 1..Len(added) :
       Headings(changelog.lines)[k] = headingLine(added[Len(added) + 1 - k], Today)

\* C17 witness: 1.0.0 then 1.1.0 added to a missing file: 1.1.0 is on top.
C17_Witness ==
  /\ added = << <<"1", ".", "0", ".", "0">>, <<"1", ".", "1", ".", "0">> >>
  /\ changelog.lines[1] = TitleLine
  /\ Len(Headings(changelog.lines)) = 2
  /\ Headings(changelog.lines)[1] = headingLine(<<"1", ".", "1", ".", "0">>, Today)

\* new is old with one block of lines put in at a place that has no section
\* heading above it.
InsertedAboveSections(old, new) ==
  \E k \in 0..Len(old) :
    /\ Len(new) >= Len(old)
    /\ SubSeq(new, 1, k) = SubSeq(old, 1, k)
    /\ SubSeq(new, Len(new) - (Len(old) - k) + 1, Len(new)) = SubSeq(old, k + 1, Len(old))
    /\ Headings(SubSeq(old, 1, k)) = <<>>

\* C18: addEntry never rewrites existing content: every line of the document
\* before the insertion is there after it, unchanged and in the same order,
\* and no earlier section is split, so each is byte-identical to what it was.
C18_OnlyShiftedDown ==
  [][changelog' # changelog =>
       InsertedAboveSections(existingContent, changelog'.lines)]_vars

\* C18 witness: two entries added above the old section of a titled document.
C18_Witness ==
  /\ Len(added) = 2
  /\ changelog.lines[1] = TitleLine
  /\ Len(Headings(changelog.lines)) = 3
  /\ SubSeq(changelog.lines, Len(changelog.lines) - Len(OldSection) + 1,
            Len(changelog.lines)) = OldSection

(* ---------------------------------------------------------------------- *)
(* Properties of the version command                                       *)
(* ---------------------------------------------------------------------- *)

StepDone(cmd) ==
  \E i \in 1..Len(versionRun.steps) : versionRun.steps[i] = Ran(cmd, TRUE)
StepFailed(cmd) ==
  \E i \in 1..Len(versionRun.steps) : versionRun.steps[i] = Ran(cmd, FALSE)

\* C19: in a run of the version command a changeset file is unlinked only
\* after updateVersion and then addEntry succeeded in that run, package.json
\* then carrying the next version and the changelog its entry on top; and
\* when updateVersion or addEntry failed, every changeset listed by the run
\* is still in the store when the command ends.
C19_ConsumeAfterCommit ==
  /\ \A i \in 1..Len(versionRun.steps) :
       versionRun.steps[i].cmd = "unlink" =>
         \E j, k \in 1..Len(versionRun.steps) :
           /\ j < k /\ k < i
           /\ versionRun.steps[j] = Ran("updateVersion", TRUE)
           /\ versionRun.steps[k] = Ran("addEntry", TRUE)
  /\ (StepDone("unlink") \/ StepFailed("unlink")) =>
       /\ manifest.version = versionInfo.next
       /\ Headings(changelog.lines) # <<>>
       /\ Headings(changelog.lines)[1] = headingLine(versionInfo.next, Today)
  /\ (versionRun.pc = "done" /\ (StepFailed("updateVersion") \/ StepFailed("addEntry"))) =>
       /\ changesets # <<>>
       /\ store = changesets

\* C19 witness: package.json was rewritten, the changelog write failed and the
\* command ended with both changesets still in the store.
C19_Witness ==
  /\ versionRun.pc = "done"
  /\ StepDone("updateVersion")
  /\ StepFailed("addEntry")
  /\ manifest.version = versionInfo.next
  /\ Len(store) = MaxStore
  /\ store = changesets

\* C20: after a run of the version command that completed a release, and
\* until a changeset is added, no step of a later run changes package.json,
\* CHANGELOG.md or the changeset store.
C20_SecondRunChangesNothing ==
  [][(consumed /\ consumed') => UNCHANGED <<manifest, changelog, store>>]_vars

\* C20 witness: a second run, after the release 0.9.9 -> 0.9.10, has found
\* nothing to do and ended with exit code 0.
C20_Witness ==
  /\ consumed
  /\ versionRun.pc = "done"
  /\ versionRun.exitCode = 0
  /\ versionRun.steps = <<Ran("preChecks", TRUE), Ran("getCurrentVersion", TRUE)>>
  /\ manifest.version = <<"0", ".", "9", ".", "1", "0">>
  /\ Len(added) = 1
  /\ store = <<>>

\* The gate refused the run because the tag of the current version is the
\* latest tag.
AlreadyReleased ==
  /\ ~canPublishCheck.canPublish
  /\ canPublishCheck.reason = "already released"

\* C29: in CI mode the publish command exits with code 0 exactly when the
\* pipeline succeeded or the gate reported the current version as already
\* released; a package.json whose version cannot be read, like every other
\* validation or stage failure, gives a non-zero exit code.
C29_CiExitCode ==
  (viaCommand /\ ci /\ pc = "done") =>
    (exitCode = 0 <=> (result.success \/ AlreadyReleased))

\* The steps of the version command that write: package.json, CHANGELOG.md,
\* the changeset records, the git history.
WritingSteps == {"updateVersion", "addEntry", "unlink", "git commit"}

\* C30: a run of the version command with --dry-run leaves package.json,
\* CHANGELOG.md and every changeset record as they were and makes no commit,
\* whatever the store holds.
C30_DryRunChangesNothing ==
  [][versionRun'.dryRun =>
       /\ UNCHANGED <<manifest, changelog, store>>
       /\ \A i \in 1..Len(versionRun'.steps) :
            versionRun'.steps[i].cmd \notin WritingSteps]_vars

\* C30 witness: a dry run over a full store has shown the next version
\* 0.9.10 and returned.
C30_Witness ==
  /\ versionRun.dryRun
  /\ versionRun.pc = "done"
  /\ versionRun.exitCode = 0
  /\ StepDone("calculateNextVersion")
  /\ Len(store) = MaxStore
  /\ versionInfo.next = <<"0", ".", "9", ".", "1", "0">>
  /\ manifest.version = <<"0", ".", "9", ".", "9">>

\* The last call was op and it returned.
Completed(op) == call.op = op /\ call.error = Null

\* The instant of the createdAt of the i-th returned record
ReturnedAt(i) == getTime(call.returned[i].createdAt).ms

\* C21: a consumeChangesets that completes returns the list getAllChangesets
\* gives for the directory as it was, none of the returned records has a file
\* afterwards, and a listing of the directory as it is then is empty.
C21_ConsumeReturnsListAndRemovesIt ==
  [][(call'.op = "consumeChangesets" /\ call'.error = Null) =>
       /\ call'.returned = getAllChangesets(files)
       /\ \A i \in 1..Len(call'.returned) : call'.returned[i].id \notin namesOf(files')
       /\ getAllChangesets(files') = <<>>]_vars

\* C21 witness: a consume has returned two records and removed their files.
C21_Witness ==
  /\ Completed("consumeChangesets")
  /\ Len(call.returned) = 2
  /\ files = <<>>

\* A file holds a valid record: it can be read and parsed, the parsed value is
\* an object with the four fields, a type that is one of the three, a summary
\* that is not blank, a createdAt that denotes an instant, and the id is the
\* file's name.
HoldsRecord(file) ==
  /\ file.kind = "object"
  /\ DOMAIN file.object = {"id", "type", "summary", "createdAt"}
  /\ file.object.type \in {"major", "minor", "patch"}
  /\ \E i \in 1..Len(file.object.summary) : file.object.summary[i] \notin {" ", "\n", "\r"}
  /\ file.object.createdAt \in
       {"2024-05-01T00:00:00.000Z", "2024-05-01", "2024-05-02T00:00:00.000Z"}
  /\ file.object.id = file.name

\* C22: getAllChangesets returns whatever the files hold, and what it returns
\* are the records of exactly the files that hold a valid record.
C22_BadRecordsSkipped ==
  call.op = "getAllChangesets" =>
    /\ call.error = Null
    /\ \A i \in 1..Len(files) :
         HoldsRecord(files[i]) <=>
           \E j \in 1..Len(call.returned) :
             /\ call.returned[j].id = files[i].name
             /\ call.returned[j] = files[i].object
    /\ Len(call.returned) = Cardinality({ i \in 1..Len(files) : HoldsRecord(files[i]) })

\* C22 witness: of a file whose name is not its record's id and a file with a
\* valid record, the listing has returned the second only.
C22_Witness ==
  /\ Completed("getAllChangesets")
  /\ Len(files) = 2
  /\ files[1].kind = "object" /\ files[1].object.id # files[1].name
  /\ HoldsRecord(files[2])
  /\ call.returned = <<files[2].object>>

\* C23: a createChangeset that returns has written under an id no file had,
\* every file that was there is still there with its content, and the names of
\* the files are pairwise different.
C23_CreateNeverOverwrites ==
  [][(call'.op = "createChangeset" /\ call'.error = Null) =>
       /\ call'.id \notin namesOf(files)
       /\ call'.id \in namesOf(files')
       /\ Len(files') = Len(files) + 1
       /\ \A i \in 1..Len(files) : \E j \in 1..Len(files') : files'[j] = files[i]
       /\ \A i, j \in 1..Len(files') : i # j => files'[i].name # files'[j].name]_vars

\* C23 witness: two creates have succeeded one after the other, the second
\* after the id of the first was drawn again and again.
C23_Witness ==
  /\ Completed("createChangeset")
  /\ Len(files) = 2
  /\ \A i \in 1..2 : files[i].object.createdAt \in Now
  /\ call.checked = maxAttempts

\* The input is one createChangeset has to reject: the type is none of the
\* three, or the summary without the blanks around it has fewer than 5 or more
\* than 200 characters or a line break.
Rejectable(input) ==
  \/ input.type \notin {"major", "minor", "patch"}
  \/ Len(trim(input.summary)) < 5
  \/ Len(trim(input.summary)) > 200
  \/ \E i \in 1..Len(trim(input.summary)) : trim(input.summary)[i] \in {"\n", "\r"}

\* C24: a createChangeset with such an input fails, and the directory, its
\* config.json and its files are after the call what they were before it.
C24_RejectedCreateChangesNothing ==
  [][(call'.op = "createChangeset" /\ Rejectable(call'.input)) =>
       /\ call'.error # Null
       /\ files' = files
       /\ changesetsDir' = changesetsDir]_vars

\* The record is one createChangeset could have written.
Creatable(changeset) ==
  /\ changeset.type \in {"major", "minor", "patch"}
  /\ Len(changeset.summary) >= 5
  /\ Len(changeset.summary) <= 200
  /\ \A i \in 1..Len(changeset.summary) : changeset.summary[i] \notin {"\n", "\r"}
  /\ changeset.summary = trim(changeset.summary)

\* C25: the record the edit command writes is one createChangeset could have
\* written.
C25_EditValidatesAsCreate ==
  (call.op = "editCommand" /\ call.returned # <<>>) => Creatable(call.returned[1])

C27_SortedByCreatedAt ==
  call.op \in {"getAllChangesets", "consumeChangesets"} =>
    \A i \in 1..(Len(call.returned) - 1) : ReturnedAt(i) <= ReturnedAt(i + 1)

\* C27 witness: the directory lists the later record first and the listing
\* has returned the earlier one first.
C27_Witness ==
  /\ Completed("getAllChangesets")
  /\ Len(files) = 2
  /\ call.returned = <<files[2].object, files[1].object>>
  /\ ReturnedAt(1) < ReturnedAt(2)

\* C28: a createChangeset asks about at most maxAttempts candidate ids; when
\* it returns, the id it wrote under was asked about and had no file; when it
\* fails, no file is written, and it fails when every candidate had a file.
C28_IdGenerationBounded ==
  [][call'.op = "createChangeset" =>
       /\ call'.checked <= maxAttempts
       /\ call'.error = Null =>
            call'.checked >= 1 /\ call'.free /\ call'.id \notin namesOf(files)
       /\ call'.error # Null => files' = files
       /\ (call'.checked = maxAttempts /\ ~call'.free) =>
            call'.error = "IdGenerationExhausted"]_vars

\* C28 witness: every candidate had a file and the create has failed after
\* maxAttempts of them, writing nothing.
C28_Witness ==
  /\ call.op = "createChangeset"
  /\ call.error = "IdGenerationExhausted"
  /\ call.checked = maxAttempts
  /\ Len(files) = 1

\* The number of the changesets handed to calculateNextVersion that have this type
RECURSIVE NumberOfType(_, _)
NumberOfType(type, n) ==
  IF n = 0 THEN 0
  ELSE NumberOfType(type, n - 1) + (IF changesets[n].type = type THEN 1 ELSE 0)

\* C31: the changesByType calculateNextVersion returns holds for each type the
\* number of changesets of that type, the three add up to the length of the
\* list, and hasChanges is true exactly when the list is not empty; 1.0.2 with
\* one minor and one patch changeset gives 1.1.0 and the counts 0, 1, 1.
C31_CountsByType ==
  Returned =>
    /\ \A t \in {"major", "minor", "patch"} :
         versionInfo.changesByType[t] = NumberOfType(t, Len(changesets))
    /\ versionInfo.changesByType["major"] + versionInfo.changesByType["minor"]
         + versionInfo.changesByType["patch"] = Len(changesets)
    /\ versionInfo.hasChanges <=> changesets # <<>>
    /\ ( /\ currentVersion = <<"1", ".", "0", ".", "2">>
         /\ Len(changesets) = 2
         /\ Has("minor") /\ Has("patch") ) =>
         /\ versionInfo.next = <<"1", ".", "1", ".", "0">>
         /\ versionInfo.changesByType = [major |-> 0, minor |-> 1, patch |-> 1]

\* C31 witness: 1.0.2 with one minor and one patch changeset has given 1.1.0.
C31_Witness ==
  /\ Returned
  /\ currentVersion = <<"1", ".", "0", ".", "2">>
  /\ changesets = <<[type |-> "minor"], [type |-> "patch"]>>
  /\ versionInfo.next = <<"1", ".", "1", ".", "0">>
  /\ versionInfo.changesByType["minor"] = 1

\* The rearrangements of the positions of the changesets
Rearrangements ==
  { p \in [1..Len(changesets) -> 1..Len(changesets)] :
      \A i, j \in 1..Len(changesets) : i # j => p[i] # p[j] }

\* C34: for every version it accepts, calculateNextVersion gives for every
\* rearrangement of the list the result it gave for the list: the same next,
\* hasChanges and changesByType.
C34_OrderIrrelevant ==
  Returned =>
    \A p \in Rearrangements :
      calculateNextVersion(currentVersion, [i \in 1..Len(changesets) |-> changesets[p[i]]])
        = versionInfo

\* C34 witness: a result was returned for a list of three changesets of three
\* types that is not in the order major, minor, patch.
C34_Witness ==
  /\ Returned
  /\ ValidVersion(currentVersion)
  /\ changesets = <<[type |-> "patch"], [type |-> "major"], [type |-> "minor"]>>
  /\ versionInfo.next = VersionText(PartNumber(currentVersion, 1) + 1, 0, 0)

\* The document has a title line.
Titled(lines) == \E i \in 1..Len(lines) : startsWith(lines[i], "# Changelog")

\* The line of the heading of the section added last: the topmost line that
\* is that heading
NewestHeading ==
  CHOOSE h \in 1..Len(changelog.lines) :
    /\ changelog.lines[h] = headingLine(added[Len(added)], Today)
    /\ \A k \in 1..(h - 1) : changelog.lines[k] # changelog.lines[h]

\* C32: after every addEntry on a document with a title line there is exactly
\* one blank line between the heading of the section added last and the text
\* above it.
C32_OneBlankLineAbove ==
  (added # <<>> /\ Titled(changelog.lines)) =>
    /\ NewestHeading > 2
    /\ trimsToEmpty(changelog.lines[NewestHeading - 1])
    /\ ~trimsToEmpty(changelog.lines[NewestHeading - 2])

\* C33: when the document addEntry reads has no title line, the document it
\* writes is the new section followed by the whole of what it read: it starts
\* with the lines of the entry of the version added and ends with the lines
\* that were there, unchanged.
C33_PrependedWithoutTitle ==
  [][(changelog' # changelog /\ ~Titled(existingContent)) =>
       \E list \in EntryChangesets :
         LET newEntry == generateDefaultTemplate(
                           createChangelogEntry(added'[Len(added')], list))
         IN /\ Len(changelog'.lines) = Len(newEntry) + Len(existingContent)
            /\ SubSeq(changelog'.lines, 1, Len(newEntry)) = newEntry
            /\ SubSeq(changelog'.lines, Len(newEntry) + 1, Len(changelog'.lines))
                 = existingContent]_vars

\* C33 witness: two entries were put, one after the other, on top of a
\* document that has an old section and no title.
C33_Witness ==
  /\ Len(added) = 2
  /\ ~Titled(changelog.lines)
  /\ changelog.lines[1] = headingLine(added[2], Today)
  /\ Len(Headings(changelog.lines)) = 3
  /\ SubSeq(changelog.lines, Len(changelog.lines) - Len(OldSection) + 1,
            Len(changelog.lines)) = OldSection

\* The line is the heading of the section of exactly this version.
HeadingOf(line, version) == startsWithText(line, <<"## v">> \o version \o <<" (">>)

\* The sections of this version in the document: from a heading of the
\* version up to the next version heading or the end, without the blank lines
\* at the end
SectionsOf(lines, version) ==
  { trimLines(SubSeq(lines, i,
      (CHOOSE e \in (i + 1)..(Len(lines) + 1) :
         /\ e <= Len(lines) => startsWith(lines[e], "## v")
         /\ \A k \in (i + 1)..(e - 1) : ~startsWith(lines[k], "## v")) - 1)) :
    i \in { h \in 1..Len(lines) : HeadingOf(lines[h], version) } }

\* C35: getVersionChangelog(v) returns a section of the document whose
\* heading is for exactly the version v, and null when the document has no
\* section for v.
C35_LookupFindsExactVersion ==
  [][lookup' # lookup =>
       IF SectionsOf(changelog.lines, lookup'.version) = {}
         THEN ~lookup'.found
         ELSE /\ lookup'.found
              /\ lookup'.section \in SectionsOf(changelog.lines, lookup'.version)]_vars

\* C36: when a run of the version command in a git repository has started on
\* a clean working tree (outside CI mode it starts on no other), has made its
\* release commit and has returned, the working tree is clean: the commit
\* holds every file the run changed.
C36_ReleaseCommitLeavesTreeClean ==
  ( /\ committed.repo
    /\ versionRun.pc = "done"
    /\ versionRun.exitCode = 0
    /\ ~versionRun.ci
    /\ StepDone("git commit") ) => isWorkingDirectoryClean

\* C37: config.json is never treated as a changeset: no call returns it as a
\* record, and once it is there no create, list, consume, edit, delete or
\* delete-all changes or removes it; init writes it only when it is missing.
C37_ConfigIsNoChangeset ==
  [][/\ \A i \in 1..Len(call'.returned) : call'.returned[i].id # "config"
     /\ changesetsDir.config.kind # "absent"
          => changesetsDir'.config = changesetsDir.config
     /\ changesetsDir.config.kind = "absent"
          => changesetsDir'.config = init(NoDir).config]_vars

\* A delete --all has removed all records next to a config.json that has the
\* fields of a record.
C37_Witness ==
  /\ call.op = "deleteCommand"
  /\ Len(call.returned) = 1
  /\ files = <<>>
  /\ changesetsDir.config.kind = "object"
  /\ "id" \in DOMAIN changesetsDir.config.object

\* C38: a publish run never deletes a tag it did not create: a tag that goes
\* away is the one createAndPushTag returned in this run, after this run's
\* git tag made it, and it goes away in the catch block only, never after a
\* failure of Validate, Build or Test or after the refusal of a tag that was
\* already there.
C38_OnlyOwnTagDeleted ==
  [][\A i \in 1..Len(git.tags) :
       (\A j \in 1..Len(git'.tags) : git'.tags[j] # git.tags[i])
         => /\ pc = "catch"
            /\ git.tags[i] = result.gitTag
            /\ \E k \in 1..Len(trace) : trace[k] = Ran("git tag", TRUE)
            /\ caught \notin {"NotGitRepository", "WorkingDirectoryNotClean",
                               "BranchUnknown", "CriticalCheckFailed",
                               "VersionUnreadable", "BuildFailed", "TestFailed",
                               "TagExists"}]_vars

\* A run has met the tag of its version, createAndPushTag has refused it, the
\* catch block is over and the tag is still there.
C38_Witness ==
  /\ pc = "threw"
  /\ thrown = "TagExists"
  /\ tagExists(TagOf(result.version))
  /\ trace # <<>>

\* C39: PublishManager.publish leaves the release inputs untouched in every
\* outcome: no step of a run, the catch block and its rollback included,
\* creates, edits or deletes a changeset record or changes the version of
\* package.json or CHANGELOG.md.
C39_PublishLeavesInputs ==
  [][/\ store' = store
     /\ files' = files
     /\ changesetsDir' = changesetsDir
     /\ packageJson'.version = packageJson.version
     /\ manifest' = manifest
     /\ changelog' = changelog]_vars

\* The registry publish has failed after the tag was pushed, the rollback has
\* deleted the tag, and the record, the version and the changelog are there.
C39_Witness ==
  /\ pc = "threw"
  /\ thrown = "NpmPublishFailed"
  /\ result.gitTag # Null
  /\ ~tagExists(result.gitTag)
  /\ Len(store) = 1
  /\ Len(files) = 1
  /\ changelog.exists
  /\ packageJson.version = "1.0.0"

\* C40: within one run of the version command the changesets the consume
\* step has deleted are those listed at the start of the run, from which the
\* version was calculated and the changelog entry written: once the step has
\* acted, every listed changeset is deleted, and the entry of the run is the
\* entry of the deleted ones.
C40_ConsumedAreReleased ==
  (StepDone("unlink") \/ StepFailed("unlink")) =>
    LET deleted == SelectSeq(changesets,
                     LAMBDA cs : \A i \in 1..Len(store) : store[i] # cs)
        entry == generateDefaultTemplate(createChangelogEntry(versionInfo.next, deleted))
    IN /\ deleted = changesets
       /\ \E k \in 1..Len(changelog.lines) :
            /\ k + Len(entry) - 1 <= Len(changelog.lines)
            /\ SubSeq(changelog.lines, k, k + Len(entry) - 1) = entry

====
